---- MODULE Spec2Model ----
(***************************************************************************)
(* A model of the Recorder of audio-recorder-rs (src/src/recorder): the    *)
(* recording session (start / stop / get_config / get_is_recording), the   *)
(* rate reconciliation done by record_multiple, the threads each path      *)
(* spawns, and the queues and delivery channel of the dual-device paths.   *)
(*                                                                         *)
(* The shared flag is `recording_signal_mutex` (mod.rs, helpers.rs,        *)
(* multiple_wo_resampler.rs, record_single_device.rs) and                  *)
(* `recording_signal` (multiple_w_resampler.rs): one flag, here            *)
(* recording_signal.  Likewise `target_rate` (mod.rs, helpers.rs,          *)
(* record_single_device.rs) and `target_sample_rate`                       *)
(* (record_multiple_spawner.rs) are one field, here target_rate.           *)
(* The macOS-only blocks (#[cfg(target_os = "macos")]) are not modelled.   *)
(***************************************************************************)
EXTENDS Integers, Sequences, FiniteSets, TLC

(***************************************************************************)
(* Bounds of the model.                                                    *)
(***************************************************************************)
\* device sample rates range over 1..MaxRate (samples per second)
MaxRate == 3
\* number of start / stop calls made by the caller in one behaviour
MaxCalls == 3
\* frames a capture callback is handed at once
MaxFrames == 2
\* invocations of each capture callback of a session
MaxCallbacks == 1
\* invocations of the capture callback of a single-device session
MaxSingleCallbacks == 2

(***************************************************************************)
(* Option<T>: None is the empty tuple, Some(v) the one-element tuple.      *)
(***************************************************************************)
None == <<>>
Some(v) == <<v>>
IsSome(o) == o # <<>>
Unwrap(o) == o[1]

(***************************************************************************)
(* cpal::SampleFormat.  The ten encodings the code dispatches on, and one  *)
(* encoding outside them (the `sf =>` arms).                               *)
(***************************************************************************)
\* common.rs:5: the canonical sample type
TargetFormat == "F32"

SupportedFormats ==
    {"I8", "I16", "I32", "I64", "U8", "U16", "U32", "U64", "F32", "F64"}
UnsupportedFormat == "I24"
\* the encodings the devices of the model report
DeviceFormats == {"I16", UnsupportedFormat}

\* SampleFormat::sample_size(): bytes per sample
SampleSize(fmt) ==
    CASE fmt \in {"I8", "U8"} -> 1
      [] fmt \in {"I16", "U16"} -> 2
      [] fmt \in {"I32", "U32", "F32", "I24"} -> 4
      [] OTHER -> 8

\* the channel layouts in scope: mono and stereo
ChannelCounts == {1, 2}

\* a device's default stream configuration
DeviceConfigs ==
    [sample_rate : 1..MaxRate, channels : ChannelCounts,
     sample_format : DeviceFormats]

VARIABLES
    host,              \* the default devices: [input, output], each an Option
    recording_signal,  \* Recorder.recording_signal_mutex: the shared flag
    lock,              \* holder of the flag's mutex: 0, or a session's thread
    target_rate,       \* Recorder.target_rate: Option<u32>
    channels,          \* Recorder.channels: Option<u16>
    sample_size,       \* Recorder.sample_size: Option<u32>
    sessions,          \* the threads and streams spawned by each start
    api                \* the last start / stop call and what it returned

vars == <<host, recording_signal, lock, target_rate, channels, sample_size,
          sessions, api>>

(***************************************************************************)
(* Results.  start and stop return Result<_, String>; an error is kept as  *)
(* the message the code builds.                                            *)
(***************************************************************************)
Ok == "Ok"
\* helpers.rs:98, the message prepare rejects a second start with
RecordingInProgress == "Recording already in progress"
\* mod.rs:165, what start returns when prepare failed
FailedToPrepare == "Failed to prepare recorder"
NoInputDevice == "No input device available"
NoOutputDevice == "No output device found"
FailedInputConfig == "Failed to get input config"
FailedOutputConfig == "Failed to get output config"
FailedDefaultInputConfig == "Failed to get default input config"
UnsupportedSampleFormat == "Unsupported sample format"
\* AudioRecorderError::DeviceError(msg), as Display prints it (errors.rs:13-15)
DeviceError(msg) == "Device Error: " \o msg

(***************************************************************************)
(* Rate reconciliation: record_multiple_spawner.rs:48-65.                  *)
(***************************************************************************)
\* a reconciler that resamples the stream with the lower rate
ReconcileSwapped(input_sample_rate, output_sample_rate) ==
    IF input_sample_rate < output_sample_rate
      THEN [resampler_target |-> "Input",
            target_rate |-> input_sample_rate,
            origin_rate |-> output_sample_rate]
    ELSE IF input_sample_rate = output_sample_rate
      THEN [resampler_target |-> "None",
            target_rate |-> input_sample_rate,
            origin_rate |-> output_sample_rate]
      ELSE [resampler_target |-> "Output",
            target_rate |-> output_sample_rate,
            origin_rate |-> input_sample_rate]

\* a reconciler that targets the higher rate
ReconcileUp(input_sample_rate, output_sample_rate) ==
    IF input_sample_rate < output_sample_rate
      THEN [resampler_target |-> "Output",
            target_rate |-> output_sample_rate,
            origin_rate |-> input_sample_rate]
    ELSE IF input_sample_rate = output_sample_rate
      THEN [resampler_target |-> "None",
            target_rate |-> input_sample_rate,
            origin_rate |-> output_sample_rate]
      ELSE [resampler_target |-> "Input",
            target_rate |-> input_sample_rate,
            origin_rate |-> output_sample_rate]

Reconcile(input_sample_rate, output_sample_rate) ==
    IF input_sample_rate < output_sample_rate
      THEN [resampler_target |-> "Output",
            target_rate |-> input_sample_rate,
            origin_rate |-> output_sample_rate]
    ELSE IF input_sample_rate = output_sample_rate
      THEN [resampler_target |-> "None",
            target_rate |-> input_sample_rate,
            origin_rate |-> output_sample_rate]
      ELSE [resampler_target |-> "Input",
            target_rate |-> output_sample_rate,
            origin_rate |-> input_sample_rate]

(***************************************************************************)
(* The derived configuration of the Recorder, as a record of Options.      *)
(***************************************************************************)
NoConfig == [target_rate |-> None, channels |-> None, sample_size |-> None]

\* the outcome of (a part of) start: what it returns, the derived
\* configuration it populated (None: it populated nothing), and the session
\* it spawned, if any
Outcome(result, cfg, spawned) ==
    [result |-> result, cfg |-> cfg, spawned |-> spawned]

(***************************************************************************)
(* Sessions.  Every successful start spawns one orchestration thread       *)
(* (field orch: the statement it is about to execute), which builds the    *)
(* capture streams and, in the resampling paths, spawns the resampler      *)
(* thread (field res).  The queues and the delivery channel of the         *)
(* session are created by start before the thread is spawned.              *)
(***************************************************************************)
\* common.rs:10 is 44100; the model counts queue slots in units that keep
\* the queues small: capacity RESAMPLER_CHUNK_SIZE * 2 as in the code
RESAMPLER_CHUNK_SIZE == 1

\* TargetFormat::EQUILIBRIUM, the silence value of f32
EQUILIBRIUM == 0

\* the resampling engine (rubato::FftFixedIn, built at
\* multiple_w_resampler.rs:142-143 with chunk_size_in 1024), in the model's
\* units: the frames it takes per step (input_frames_next) and the length of
\* the buffer output_buffer_allocate(true) returns (output_frames_max)
InputFramesNext == 1
OutputFramesMax == 1

Paths == {"single", "passthrough", "input_resampler", "output_resampler"}
ResamplerPaths == {"input_resampler", "output_resampler"}

\* multiple_wo_resampler.rs:51-52
\*   latency_frames = (150.0 / 1_000.0) * sample_rate as f32
\*   latency_samples = latency_frames as usize * channels as usize
latency_samples(config) ==
    ((150 * config.sample_rate) \div 1000) * config.channels

Repeat(v, n) == [i \in 1..n |-> v]

\* the state of a session right after start has spawned its thread
NewSession(path, T, U, target_rate_, origin_rate, capacity, prefill) ==
    [path       |-> path,
     in_type    |-> T,          \* the sample types the input and the output
     out_type   |-> U,          \* callback are instantiated with
     target_rate |-> target_rate_,  \* the rates the threads were given
     origin_rate |-> origin_rate,   \* (0: the path is given none)
     orch       |-> IF path = "single" THEN "build" ELSE "build_in",
     res        |-> "none",
     observed   |-> None,       \* the flag as the thread's loop last read it
     in_stream  |-> "none",
     out_stream |-> "none",
     capacity   |-> capacity,   \* of every queue of the session
     q_res      |-> <<>>,       \* staging queue in front of the resampler
     q_in       |-> <<>>,       \* final queue of the input side
     q_out      |-> prefill,    \* final queue of the output side / the ring
     chan       |-> <<>>,       \* chunks sent on the delivery channel
     tx         |-> TRUE,       \* the channel's sender has not been dropped
     rx         |-> TRUE,       \* nor the receiver start returned
     unsent     |-> 0,          \* chunks whose send failed
     resampler_output_buffer |-> Repeat(0, OutputFramesMax),
     engine_next |-> 0,         \* the frames the engine wants for its next step
     next_input_frames |-> 0,   \* the thread's copy of that number
     last_frames |-> 0,         \* the frames the engine produced in its last step
     dropped    |-> 0,          \* samples that found their queue full
     drop_logs  |-> 0,          \* "fell behind" events logged
     fed_in     |-> 0,          \* invocations of the input callback so far
     fed_out    |-> 0,          \* invocations of the output callback so far
     heard_in   |-> <<>>,       \* the buffers the input device has handed
     heard_out  |-> <<>>]       \* its callback so far, and the output device

(***************************************************************************)
(* start, from the inside out.  qf is the first device-configuration query *)
(* of this call that fails (0: none does); the queries are numbered in the *)
(* order start makes them.                                                 *)
(***************************************************************************)
\* record_single_device.rs:17-49, 296: the only query is number 1
record_single_device(device, qf) ==
    IF qf = 1
      THEN Outcome(FailedDefaultInputConfig, None, None)
      ELSE Outcome(Ok,
                   Some([target_rate |-> Some(device.sample_rate),
                         channels    |-> Some(device.channels),
                         sample_size |->
                             Some(SampleSize(device.sample_format))]),
                   Some(NewSession("single", device.sample_format, "none",
                                   0, 0, 0, <<>>)))

\* a passthrough path that does not fill the ring before the streams start
without_resampler_unfilled(input_device, output_device, cfg, qf) ==
    IF qf = 5 THEN Outcome(FailedInputConfig, Some(cfg), None)
    ELSE IF qf = 6 THEN Outcome(FailedOutputConfig, Some(cfg), None)
    ELSE LET n == latency_samples(input_device) IN
         Outcome(Ok, Some(cfg),
                 Some(NewSession("passthrough", input_device.sample_format,
                                 output_device.sample_format, 0, 0, n * 2,
                                 <<>>)))

\* a passthrough path whose ring has room for the cushion only
without_resampler_single_capacity(input_device, output_device, cfg, qf) ==
    IF qf = 5 THEN Outcome(FailedInputConfig, Some(cfg), None)
    ELSE IF qf = 6 THEN Outcome(FailedOutputConfig, Some(cfg), None)
    ELSE LET n == latency_samples(input_device) IN
         Outcome(Ok, Some(cfg),
                 Some(NewSession("passthrough", input_device.sample_format,
                                 output_device.sample_format, 0, 0, n,
                                 Repeat(EQUILIBRIUM, n))))

\* multiple_wo_resampler.rs:34-76, 182: queries 5 and 6
without_resampler(input_device, output_device, cfg, qf) ==
    IF qf = 5 THEN Outcome(FailedInputConfig, Some(cfg), None)
    ELSE IF qf = 6 THEN Outcome(FailedOutputConfig, Some(cfg), None)
    ELSE LET n == latency_samples(input_device) IN
         Outcome(Ok, Some(cfg),
                 Some(NewSession("passthrough", input_device.sample_format,
                                 output_device.sample_format, 0, 0, n * 2,
                                 Repeat(EQUILIBRIUM, n))))

\* multiple_w_resampler.rs:39-68, 234 and 250-279, 443: queries 5 and 6.
\* with_input_resampler<T, U> declares its callbacks on &[T] and &[U]
\* (lines 84, 97); with_output_resampler<T, U> declares both on
\* &[TargetFormat] (lines 294, 307)
with_resampler(path, T, U, target_rate_, origin_rate, cfg, qf) ==
    IF qf = 5 THEN Outcome(DeviceError(FailedInputConfig), Some(cfg), None)
    ELSE IF qf = 6 THEN Outcome(DeviceError(FailedOutputConfig), Some(cfg), None)
    ELSE Outcome(Ok, Some(cfg),
                 Some(NewSession(path,
                                 IF path = "output_resampler"
                                   THEN TargetFormat ELSE T,
                                 IF path = "output_resampler"
                                   THEN TargetFormat ELSE U,
                                 target_rate_, origin_rate,
                                 RESAMPLER_CHUNK_SIZE * 2, <<>>)))

\* the derived channel count of a dual-device session
\* (record_multiple_spawner.rs:69)
DualChannels == 2

\* a record_multiple that reports the input device's channel count
record_multiple_native_channels(input_device, output_device, qf) ==
    IF qf = 3 THEN Outcome(DeviceError(FailedInputConfig), None, None)
    ELSE IF qf = 4 THEN Outcome(DeviceError(FailedOutputConfig), None, None)
    ELSE LET r == Reconcile(input_device.sample_rate,
                            output_device.sample_rate)
             cfg == [target_rate |-> Some(r.target_rate),
                     channels    |-> Some(input_device.channels),
                     sample_size |->
                         Some(SampleSize(input_device.sample_format))]
         IN  CASE r.resampler_target = "None" ->
                    without_resampler(input_device, output_device, cfg, qf)
               [] r.resampler_target = "Output" ->
                    with_resampler("output_resampler",
                                   input_device.sample_format,
                                   output_device.sample_format,
                                   r.target_rate, r.origin_rate, cfg, qf)
               [] r.resampler_target = "Input" ->
                    with_resampler("input_resampler",
                                   input_device.sample_format,
                                   output_device.sample_format,
                                   r.target_rate, r.origin_rate, cfg, qf)

\* record_multiple_spawner.rs:24-91: queries 3 and 4
record_multiple(input_device, output_device, qf) ==
    IF qf = 3 THEN Outcome(DeviceError(FailedInputConfig), None, None)
    ELSE IF qf = 4 THEN Outcome(DeviceError(FailedOutputConfig), None, None)
    ELSE LET r == Reconcile(input_device.sample_rate,
                            output_device.sample_rate)
             cfg == [target_rate |-> Some(r.target_rate),
                     channels    |-> Some(DualChannels),
                     sample_size |->
                         Some(SampleSize(input_device.sample_format))]
         IN  CASE r.resampler_target = "None" ->
                    without_resampler(input_device, output_device, cfg, qf)
               [] r.resampler_target = "Output" ->
                    with_resampler("output_resampler",
                                   input_device.sample_format,
                                   output_device.sample_format,
                                   r.target_rate, r.origin_rate, cfg, qf)
               [] r.resampler_target = "Input" ->
                    with_resampler("input_resampler",
                                   input_device.sample_format,
                                   output_device.sample_format,
                                   r.target_rate, r.origin_rate, cfg, qf)

\* mod.rs:33-90: the dispatch on the pair of sample formats
record_multiple_expansion(input_device, output_device, qf) ==
    IF input_device.sample_format \notin SupportedFormats
      THEN Outcome(UnsupportedSampleFormat, None, None)
    ELSE IF output_device.sample_format \notin SupportedFormats
      THEN Outcome(UnsupportedSampleFormat, None, None)
      ELSE record_multiple(input_device, output_device, qf)

\* mod.rs:169-235: start after prepare has succeeded; queries 1 and 2
start_devices(input_only, qf) ==
    IF host.input = None THEN Outcome(NoInputDevice, None, None)
    ELSE IF input_only THEN record_single_device(Unwrap(host.input), qf)
    ELSE IF host.output = None THEN Outcome(NoOutputDevice, None, None)
    ELSE IF qf = 1 THEN Outcome(FailedInputConfig, None, None)
    ELSE IF qf = 2 THEN Outcome(FailedOutputConfig, None, None)
    ELSE record_multiple_expansion(Unwrap(host.input), Unwrap(host.output), qf)

\* a prepare that does not raise the flag
prepareNoSignal(signal) ==
    IF signal
      THEN [result |-> RecordingInProgress, signal |-> signal, reset |-> FALSE]
      ELSE [result |-> Ok, signal |-> signal, reset |-> TRUE]

\* a prepare that keeps the derived configuration of the last session
prepareNoReset(signal) ==
    IF signal
      THEN [result |-> RecordingInProgress, signal |-> signal, reset |-> FALSE]
      ELSE [result |-> Ok, signal |-> TRUE, reset |-> FALSE]

\* helpers.rs:86-104: prepare.  The flag it leaves, whether it reset the
\* derived configuration, and its result
prepare(signal) ==
    IF signal
      THEN [result |-> RecordingInProgress, signal |-> signal, reset |-> FALSE]
      ELSE [result |-> Ok, signal |-> TRUE, reset |-> TRUE]

Call(op, args, result) ==
    [n |-> api.n + 1, op |-> op, args |-> args, result |-> result]

\* mod.rs:156-236: start(input_only)
Start(input_only, qf) ==
    /\ api.n < MaxCalls
    /\ lock = 0                      \* Mutex::lock blocks while it is held
    /\ LET p == prepare(recording_signal) IN
       IF p.result # Ok
         THEN /\ api' = Call("start", input_only, FailedToPrepare)
              /\ recording_signal' = p.signal
              /\ UNCHANGED <<target_rate, channels, sample_size, sessions>>
         ELSE LET o == start_devices(input_only, qf)
                  base == IF p.reset THEN NoConfig
                          ELSE [target_rate |-> target_rate,
                                channels    |-> channels,
                                sample_size |-> sample_size]
                  cfg == IF IsSome(o.cfg) THEN Unwrap(o.cfg) ELSE base
              IN
              /\ api' = Call("start", input_only, o.result)
              /\ recording_signal' = p.signal
              /\ target_rate' = cfg.target_rate
              /\ channels' = cfg.channels
              /\ sample_size' = cfg.sample_size
              /\ sessions' = IF IsSome(o.spawned)
                               THEN Append(sessions, Unwrap(o.spawned))
                               ELSE sessions
    /\ UNCHANGED <<host, lock>>

\* a stop that refuses an Idle session
StopRefusesIdle ==
    /\ api.n < MaxCalls
    /\ lock = 0
    /\ recording_signal' = FALSE
    /\ target_rate' = None
    /\ api' = Call("stop", FALSE,
                   IF recording_signal THEN Ok ELSE "Not recording")
    /\ UNCHANGED <<host, lock, channels, sample_size, sessions>>

\* mod.rs:126-148: stop
\* a stop that leaves the target rate of the session in place
StopKeepingRate ==
    /\ api.n < MaxCalls
    /\ lock = 0
    /\ recording_signal' = FALSE
    /\ api' = Call("stop", FALSE, Ok)
    /\ UNCHANGED <<host, lock, target_rate, channels, sample_size, sessions>>

Stop ==
    /\ api.n < MaxCalls
    /\ lock = 0                      \* Mutex::lock blocks while it is held
    /\ recording_signal' = FALSE
    /\ target_rate' = None
    /\ api' = Call("stop", FALSE, Ok)
    /\ UNCHANGED <<host, lock, channels, sample_size, sessions>>

\* helpers.rs:38-51: get_is_recording, a try_lock on the flag's mutex
get_is_recording ==
    IF lock # 0 THEN TRUE ELSE recording_signal

\* helpers.rs:54-81: get_config
ConfigResult(result, config) == [result |-> result, config |-> config]

\* a get_config that does not check the sample rate
get_config_unchecked_rate ==
    IF channels = None THEN ConfigResult("Channels not set", None)
    ELSE IF sample_size = None THEN ConfigResult("Sample size not set", None)
    ELSE ConfigResult(Ok, Some([sample_rate |-> IF target_rate = None THEN 0
                                                ELSE Unwrap(target_rate),
                                channels    |-> Unwrap(channels),
                                sample_size |-> Unwrap(sample_size)]))

get_config ==
    IF target_rate = None THEN ConfigResult("Sample rate not set", None)
    ELSE IF channels = None THEN ConfigResult("Channels not set", None)
    ELSE IF sample_size = None THEN ConfigResult("Sample size not set", None)
    ELSE ConfigResult(Ok, Some([sample_rate |-> Unwrap(target_rate),
                                channels    |-> Unwrap(channels),
                                sample_size |-> Unwrap(sample_size)]))

(***************************************************************************)
(* The lock-free queues (ringbuf::HeapRb) and the delivery channel.        *)
(***************************************************************************)
Min(a, b) == IF a < b THEN a ELSE b

\* Sender::send on the unbounded channel: the chunk is queued for the
\* receiver, or, when the receiver has been dropped, handed back in an error
\* that the caller logs (multiple_w_resampler.rs:212-214)
send(sess, data) ==
    IF sess.rx THEN [sess EXCEPT !.chan = Append(@, data)]
               ELSE [sess EXCEPT !.unsent = @ + 1]

\* a push that makes room by discarding the oldest sample of a full queue
try_push_overwriting(q, capacity, sample) ==
    IF Len(q) < capacity THEN Append(q, sample)
    ELSE IF q = <<>> THEN q ELSE Append(Tail(q), sample)

\* Producer::try_push: the sample is dropped when the queue is full
try_push(q, capacity, sample) ==
    IF Len(q) < capacity THEN Append(q, sample) ELSE q

\* Producer::push_slice: pushes as many elements as fit
push_slice(q, capacity, samples) ==
    q \o SubSeq(samples, 1, Min(Len(samples), capacity - Len(q)))

\* the number of the samples for which a queue has no room
Lost(q, capacity, samples) ==
    Len(samples) - Min(Len(samples), capacity - Len(q))

\* Consumer::pop_slice(&mut buffer): moves min(len, occupied) elements to
\* the front of the buffer and leaves the rest of the buffer as it was
pop_slice(q, buffer) ==
    LET n == Min(Len(buffer), Len(q)) IN
    [buffer |-> SubSeq(q, 1, n) \o SubSeq(buffer, n + 1, Len(buffer)),
     queue  |-> SubSeq(q, n + 1, Len(q))]

\* an interleave that puts the output side first
InterleaveSwapped(input_buffer, output_buffer) ==
    LET n == Min(Len(input_buffer), Len(output_buffer)) IN
    [i \in 1..(2 * n) |->
        IF i % 2 = 1 THEN output_buffer[(i + 1) \div 2]
                     ELSE input_buffer[i \div 2]]

\* input_buffer.iter().zip(output_buffer.iter()), each pair pushed in turn
Interleave(input_buffer, output_buffer) ==
    LET n == Min(Len(input_buffer), Len(output_buffer)) IN
    [i \in 1..(2 * n) |->
        IF i % 2 = 1 THEN input_buffer[(i + 1) \div 2]
                     ELSE output_buffer[i \div 2]]

\* a synchronizer whose buffers are as long as what it popped
SyncBodyTruncating(sess, rate) ==
    IF Len(sess.q_out) >= rate \/ Len(sess.q_in) >= rate
      THEN LET i == pop_slice(sess.q_in,
                              Repeat(EQUILIBRIUM, Min(rate, Len(sess.q_in))))
               o == pop_slice(sess.q_out,
                              Repeat(EQUILIBRIUM, Min(rate, Len(sess.q_out))))
           IN  send([sess EXCEPT !.q_in = i.queue, !.q_out = o.queue],
                    Interleave(i.buffer, o.buffer))
      ELSE sess

\* a synchronizer body that merges as soon as either queue holds a sample
SyncBodyEager(sess, rate) ==
    IF sess.q_out # <<>> \/ sess.q_in # <<>>
      THEN LET i == pop_slice(sess.q_in, Repeat(EQUILIBRIUM, rate))
               o == pop_slice(sess.q_out, Repeat(EQUILIBRIUM, rate))
           IN  send([sess EXCEPT !.q_in = i.queue, !.q_out = o.queue],
                    Interleave(i.buffer, o.buffer))
      ELSE sess

\* multiple_w_resampler.rs:196-215 (and 405-424): one pass of the
\* synchronizer's loop body over a session
SyncBody(sess, rate) ==
    IF Len(sess.q_out) >= rate \/ Len(sess.q_in) >= rate
      THEN LET i == pop_slice(sess.q_in, Repeat(EQUILIBRIUM, rate))
               o == pop_slice(sess.q_out, Repeat(EQUILIBRIUM, rate))
           IN  send([sess EXCEPT !.q_in = i.queue, !.q_out = o.queue],
                    Interleave(i.buffer, o.buffer))
      ELSE sess

(***************************************************************************)
(* The orchestration thread of the dual-device paths:                      *)
(* multiple_w_resampler.rs:111-232, 321-441, multiple_wo_resampler.rs      *)
(* 119-180.  A thread that returns drops what it owns: its streams and, in *)
(* the resampling paths, the channel's sender.                             *)
(***************************************************************************)
Dual(s) == s \in 1..Len(sessions) /\ sessions[s].path # "single"
Resampling(s) == s \in 1..Len(sessions) /\ sessions[s].path \in ResamplerPaths

Set(s, sess) == sessions' = [sessions EXCEPT ![s] = sess]

Others == <<host, recording_signal, lock, target_rate, channels, sample_size,
            api>>

\* an early return of the thread: every stream built so far is dropped
Abort(sess) ==
    [sess EXCEPT !.orch = "aborted",
                 !.in_stream = IF @ = "none" THEN @ ELSE "dropped",
                 !.out_stream = IF @ = "none" THEN @ ELSE "dropped",
                 !.tx = FALSE]

BuildInputStream(s, ok) ==
    /\ Dual(s) /\ sessions[s].orch = "build_in"
    /\ Set(s, IF ok THEN [sessions[s] EXCEPT !.in_stream = "built",
                                             !.orch = "build_out"]
                    ELSE Abort(sessions[s]))
    /\ UNCHANGED Others

BuildOutputStream(s, ok) ==
    /\ Dual(s) /\ sessions[s].orch = "build_out"
    /\ Set(s, IF ok THEN [sessions[s] EXCEPT
                             !.out_stream = "built",
                             !.orch = IF sessions[s].path \in ResamplerPaths
                                        THEN "spawn_resampler" ELSE "play_in"]
                    ELSE Abort(sessions[s]))
    /\ UNCHANGED Others

\* multiple_w_resampler.rs:138-141: thread::spawn of the resampler thread
SpawnResampler(s) ==
    /\ Resampling(s) /\ sessions[s].orch = "spawn_resampler"
    /\ Set(s, [sessions[s] EXCEPT !.res = "construct", !.orch = "play_in"])
    /\ UNCHANGED Others

\* a thread that clears the flag when its input stream fails to play
PlayInputStreamClearing(s, ok) ==
    /\ Dual(s) /\ sessions[s].orch = "play_in"
    /\ Set(s, IF ok THEN [sessions[s] EXCEPT !.in_stream = "playing",
                                             !.orch = "play_out"]
                    ELSE Abort(sessions[s]))
    /\ recording_signal' = (ok /\ recording_signal)
    /\ UNCHANGED <<host, lock, target_rate, channels, sample_size, api>>

PlayInputStream(s, ok) ==
    /\ Dual(s) /\ sessions[s].orch = "play_in"
    /\ Set(s, IF ok THEN [sessions[s] EXCEPT !.in_stream = "playing",
                                             !.orch = "play_out"]
                    ELSE Abort(sessions[s]))
    /\ UNCHANGED Others

PlayOutputStream(s, ok) ==
    /\ Dual(s) /\ sessions[s].orch = "play_out"
    /\ Set(s, IF ok THEN [sessions[s] EXCEPT
                             !.out_stream = "playing",
                             !.orch = IF sessions[s].path \in ResamplerPaths
                                        THEN "sync" ELSE "poll"]
                    ELSE Abort(sessions[s]))
    /\ UNCHANGED Others

\* a synchronizer that, told to stop, sends what a last pass of its loop
\* body finds before it leaves
SynchronizeFlushing(s) ==
    /\ Resampling(s) /\ sessions[s].orch = "sync"
    /\ Set(s, IF recording_signal
                THEN [SyncBody(sessions[s], sessions[s].target_rate)
                        EXCEPT !.observed = Some(TRUE)]
                ELSE [SyncBody(sessions[s], sessions[s].target_rate)
                        EXCEPT !.observed = Some(FALSE),
                               !.orch = "pause_in"])
    /\ UNCHANGED Others

\* a synchronizer that leaves its loop when both final queues are empty
\* instead of when the flag is false
SynchronizeUntilDrained(s) ==
    /\ Resampling(s) /\ sessions[s].orch = "sync"
    /\ Set(s, IF sessions[s].q_in # <<>> \/ sessions[s].q_out # <<>>
                THEN SyncBody(sessions[s], sessions[s].target_rate)
                ELSE [sessions[s] EXCEPT !.orch = "pause_in"])
    /\ UNCHANGED Others

\* a synchronizer that gives up, as if told to stop, when a send fails
SynchronizeUntilSendFails(s) ==
    /\ Resampling(s) /\ sessions[s].orch = "sync"
    /\ LET body == SyncBody(sessions[s], sessions[s].target_rate) IN
       Set(s, IF ~recording_signal
                THEN [sessions[s] EXCEPT !.observed = Some(FALSE),
                                         !.orch = "pause_in"]
              ELSE IF body.unsent > sessions[s].unsent
                THEN [body EXCEPT !.observed = Some(TRUE),
                                  !.orch = "pause_in"]
                ELSE [body EXCEPT !.observed = Some(TRUE)])
    /\ UNCHANGED Others

\* a synchronizer whose loop condition is a copy of the flag taken when the
\* session started
SynchronizeStale(s) ==
    /\ Resampling(s) /\ sessions[s].orch = "sync"
    /\ Set(s, [SyncBody(sessions[s], sessions[s].target_rate)
                  EXCEPT !.observed = Some(TRUE)])
    /\ UNCHANGED Others

\* multiple_w_resampler.rs:195-218: `while recording_signal.load(SeqCst)`,
\* the loop body and the sleep
Synchronize(s) ==
    /\ Resampling(s) /\ sessions[s].orch = "sync"
    /\ Set(s, IF recording_signal
                THEN [SyncBody(sessions[s], sessions[s].target_rate)
                        EXCEPT !.observed = Some(TRUE)]
                ELSE [sessions[s] EXCEPT !.observed = Some(FALSE),
                                         !.orch = "pause_in"])
    /\ UNCHANGED Others

\* multiple_wo_resampler.rs:160 and record_single_device.rs:285:
\* `while *recording_signal.lock().unwrap()`: the thread takes the mutex,
LockSignal(s) ==
    /\ s \in 1..Len(sessions) /\ sessions[s].orch = "poll"
    /\ lock = 0
    /\ lock' = s
    /\ Set(s, [sessions[s] EXCEPT !.orch = "locked"])
    /\ UNCHANGED <<host, recording_signal, target_rate, channels, sample_size,
                   api>>

\* reads the flag and releases the mutex; it sleeps when the flag is true
ReadSignal(s) ==
    /\ s \in 1..Len(sessions) /\ sessions[s].orch = "locked"
    /\ lock' = 0
    /\ Set(s, [sessions[s] EXCEPT
                  !.observed = Some(recording_signal),
                  !.orch = IF recording_signal THEN "poll"
                           ELSE IF sessions[s].path = "single" THEN "drop"
                           ELSE "pause_in"])
    /\ UNCHANGED <<host, recording_signal, target_rate, channels, sample_size,
                   api>>

\* StreamTrait::pause: a failure is logged and the thread goes on
PauseInputStream(s, ok) ==
    /\ Dual(s) /\ sessions[s].orch = "pause_in"
    /\ Set(s, [sessions[s] EXCEPT !.in_stream = IF ok THEN "paused" ELSE @,
                                  !.orch = "pause_out"])
    /\ UNCHANGED Others

PauseOutputStream(s, ok) ==
    /\ Dual(s) /\ sessions[s].orch = "pause_out"
    /\ Set(s, [sessions[s] EXCEPT !.out_stream = IF ok THEN "paused" ELSE @,
                                  !.orch = "drop_in"])
    /\ UNCHANGED Others

\* drop(input_stream).  In the passthrough path the input callback owns the
\* channel's sender (multiple_wo_resampler.rs:99-115)
DropInputStream(s) ==
    /\ Dual(s) /\ sessions[s].orch = "drop_in"
    /\ Set(s, [sessions[s] EXCEPT
                  !.in_stream = "dropped",
                  !.tx = IF sessions[s].path = "passthrough" THEN FALSE ELSE @,
                  !.orch = "drop_out"])
    /\ UNCHANGED Others

DropOutputStream(s) ==
    /\ Dual(s) /\ sessions[s].orch = "drop_out"
    /\ Set(s, [sessions[s] EXCEPT !.out_stream = "dropped",
                                  !.orch = "return"])
    /\ UNCHANGED Others

\* the end of the thread's closure
Return(s) ==
    /\ s \in 1..Len(sessions) /\ sessions[s].orch = "return"
    /\ Set(s, [sessions[s] EXCEPT !.orch = "done", !.tx = FALSE])
    /\ UNCHANGED Others

(***************************************************************************)
(* The orchestration thread of the single-device path:                     *)
(* record_single_device.rs:51-294.  The stream's callback owns the         *)
(* channel's sender.                                                       *)
(***************************************************************************)
Single(s) == s \in 1..Len(sessions) /\ sessions[s].path = "single"

\* record_single_device.rs:52-277: the match on the sample format, whose
\* last arm panics, and build_input_stream
SingleBuildStream(s, ok) ==
    /\ Single(s) /\ sessions[s].orch = "build"
    /\ Set(s, IF Unwrap(host.input).sample_format \notin SupportedFormats
                THEN [sessions[s] EXCEPT !.orch = "panicked", !.tx = FALSE]
              ELSE IF ok
                THEN [sessions[s] EXCEPT !.in_stream = "built", !.orch = "play"]
                ELSE Abort(sessions[s]))
    /\ UNCHANGED Others

SinglePlayStream(s, ok) ==
    /\ Single(s) /\ sessions[s].orch = "play"
    /\ Set(s, IF ok THEN [sessions[s] EXCEPT !.in_stream = "playing",
                                             !.orch = "poll"]
                    ELSE Abort(sessions[s]))
    /\ UNCHANGED Others

SingleDropStream(s) ==
    /\ Single(s) /\ sessions[s].orch = "drop"
    /\ Set(s, [sessions[s] EXCEPT !.in_stream = "dropped", !.tx = FALSE,
                                  !.orch = "return"])
    /\ UNCHANGED Others

(***************************************************************************)
(* The resampler thread: multiple_w_resampler.rs:141-184 and 351-393.      *)
(***************************************************************************)
\* a failure to construct the engine that also ends the synchronizer's loop
ResamplerConstructStopping(s, ok, next) ==
    /\ Resampling(s) /\ sessions[s].res = "construct"
    /\ Set(s, IF ok THEN [sessions[s] EXCEPT !.res = "loop",
                                             !.engine_next = next,
                                             !.next_input_frames = next]
                    ELSE [sessions[s] EXCEPT
                             !.res = "failed",
                             !.orch = IF @ = "sync" THEN "pause_in" ELSE @])
    /\ UNCHANGED Others

\* FftFixedIn::new: on failure the thread returns; on success the thread
\* allocates the staging buffer and reads input_frames_next() (lines
\* 150-151), next being the engine's answer
ResamplerConstruct(s, ok, next) ==
    /\ Resampling(s) /\ sessions[s].res = "construct"
    /\ Set(s, IF ok THEN [sessions[s] EXCEPT !.res = "loop",
                                             !.engine_next = next,
                                             !.next_input_frames = next]
                    ELSE [sessions[s] EXCEPT !.res = "failed"])
    /\ UNCHANGED Others

\* a resampler thread that never looks at the flag
ResamplerCheckNever(s) ==
    /\ Resampling(s) /\ sessions[s].res = "loop"
    /\ Set(s, [sessions[s] EXCEPT !.res = "while"])
    /\ UNCHANGED Others

\* `if !recording_signal_2.load(SeqCst) { break; }`
ResamplerCheck(s) ==
    /\ Resampling(s) /\ sessions[s].res = "loop"
    /\ Set(s, [sessions[s] EXCEPT
                  !.res = IF recording_signal THEN "while" ELSE "exited"])
    /\ UNCHANGED Others

\* what the engine writes for a block: the block's resampled image, here
\* its first `frames` samples, at the front of the staging buffer
process_into_buffer(data_buffer, output_buffer, frames) ==
    SubSeq(data_buffer, 1, frames)
        \o SubSeq(output_buffer, frames + 1, Len(output_buffer))

\* the frames an engine can produce from a block, in the model's units: no
\* more than the block holds and no more than the staging buffer holds
FramesOut(sess) == 0..Min(OutputFramesMax, sess.next_input_frames)

\* a pass that keeps the frame count it read when the engine was built
ResamplerStepNoReread(s, ok, frames, next) ==
    /\ Resampling(s) /\ sessions[s].res = "while"
    /\ frames \in FramesOut(sessions[s])
    /\ LET sess == sessions[s] IN
       IF Len(sess.q_res) >= sess.next_input_frames
         THEN LET p == pop_slice(sess.q_res,
                                 Repeat(0, sess.next_input_frames))
                  buf == process_into_buffer(p.buffer,
                             sess.resampler_output_buffer, frames)
                  done == [sess EXCEPT !.q_res = p.queue,
                                       !.resampler_output_buffer = buf,
                                       !.last_frames = frames,
                                       !.engine_next = next]
              IN  IF ~ok
                    THEN Set(s, [sess EXCEPT !.q_res = p.queue,
                                             !.last_frames = 0])
                  ELSE IF sess.path = "input_resampler"
                    THEN Set(s, [done EXCEPT
                            !.q_in = push_slice(@, sess.capacity, buf),
                            !.dropped =
                                @ + Lost(sess.q_in, sess.capacity, buf)])
                    ELSE Set(s, [done EXCEPT
                            !.q_out = push_slice(@, sess.capacity, buf),
                            !.dropped =
                                @ + Lost(sess.q_out, sess.capacity, buf)])
         ELSE Set(s, [sess EXCEPT !.res = "loop"])
    /\ UNCHANGED Others

\* one pass of `while consumer_resampler.occupied_len() >= next_input_frames`
\* (lines 158-178), or the sleep that follows the loop (line 180).  ok,
\* frames and next are the engine's answer: whether process_into_buffer
\* succeeded, how many frames it produced, and what input_frames_next()
\* returns afterwards
ResamplerStep(s, ok, frames, next) ==
    /\ Resampling(s) /\ sessions[s].res = "while"
    /\ frames \in FramesOut(sessions[s])
    /\ LET sess == sessions[s] IN
       IF Len(sess.q_res) >= sess.next_input_frames
         THEN LET p == pop_slice(sess.q_res,
                                 Repeat(0, sess.next_input_frames))
                  buf == process_into_buffer(p.buffer,
                             sess.resampler_output_buffer, frames)
                  done == [sess EXCEPT !.q_res = p.queue,
                                       !.resampler_output_buffer = buf,
                                       !.last_frames = frames,
                                       !.engine_next = next,
                                       !.next_input_frames = next]
              IN  IF ~ok
                    THEN Set(s, [sess EXCEPT !.q_res = p.queue,
                                             !.last_frames = 0])
                  ELSE IF sess.path = "input_resampler"
                    THEN Set(s, [done EXCEPT
                            !.q_in = push_slice(@, sess.capacity, buf),
                            !.dropped =
                                @ + Lost(sess.q_in, sess.capacity, buf)])
                    ELSE Set(s, [done EXCEPT
                            !.q_out = push_slice(@, sess.capacity, buf),
                            !.dropped =
                                @ + Lost(sess.q_out, sess.capacity, buf)])
         ELSE Set(s, [sess EXCEPT !.res = "loop"])
    /\ UNCHANGED Others

(***************************************************************************)
(* The Format Normalizer: channels_to_mono (helpers.rs:179-202) followed   *)
(* by to_sample::<TargetFormat>().  A canonical sample is kept as an       *)
(* integer number of units of 2^-15, in which the conversions of the       *)
(* 8- and 16-bit encodings are exact.                                      *)
(***************************************************************************)
\* the native sample values the devices of the model deliver
NativeSamples(fmt) ==
    CASE fmt = "I16" -> {-3, 4}
      [] fmt = "U8"  -> {127, 130}
      [] fmt = "F32" -> {-6, 8}
      [] OTHER       -> {}

\* integer division of the native types: it truncates toward zero
TruncDiv(a, b) == IF a >= 0 THEN a \div b ELSE -((-a) \div b)

RECURSIVE SumSeq(_)
SumSeq(q) == IF q = <<>> THEN 0 ELSE q[1] + SumSeq(Tail(q))

\* the values of the native integer types; the other encodings are
\* summed without a bound in the model
IntegerFormats == {"I8", "U8", "I16", "U16"}

Lo(fmt) ==
    CASE fmt = "I8"  -> -128
      [] fmt = "I16" -> -32768
      [] OTHER       -> 0

Hi(fmt) ==
    CASE fmt = "I8"  -> 127
      [] fmt = "U8"  -> 255
      [] fmt = "I16" -> 32767
      [] OTHER       -> 65535

InRange(fmt, v) == fmt \in IntegerFormats => (Lo(fmt) <= v /\ v <= Hi(fmt))

\* two's-complement wrapping of the native type
Wrap(fmt, v) ==
    IF fmt \in IntegerFormats
      THEN Lo(fmt) + ((v - Lo(fmt)) % (Hi(fmt) - Lo(fmt) + 1))
      ELSE v

\* helpers.rs:196 `chunk.iter().copied().sum::<T>()`: the additions are
\* made in T, one element after the other from zero.  `overflowed` tells
\* whether one of them left the range of T (a panic where the build checks
\* overflow), `value` is the wrapped sum (the other builds)
RECURSIVE sum(_, _, _)
sum(fmt, chunk, acc) ==
    IF chunk = <<>> THEN acc
    ELSE sum(fmt, Tail(chunk),
             [value |-> Wrap(fmt, acc.value + chunk[1]),
              overflowed |-> acc.overflowed \/
                             ~InRange(fmt, acc.value + chunk[1])])

\* helpers.rs:179-202.  None: the call panics, at the assert of line 186 or
\* at an addition of line 196 in a build that checks overflow
channels_to_mono(fmt, stereo_data, chans, overflow_checks) ==
    LET frame(k) == SubSeq(stereo_data, (k - 1) * chans + 1, k * chans)
        total(k) == sum(fmt, frame(k), [value |-> 0, overflowed |-> FALSE])
        frames == 1..(Len(stereo_data) \div chans)
    IN  IF Len(stereo_data) % chans # 0 THEN None
        ELSE IF overflow_checks /\ \E k \in frames : total(k).overflowed
          THEN None
          ELSE Some([k \in frames |-> TruncDiv(total(k).value, chans)])

\* dasp_sample's conversion to f32, in units of 2^-15
to_sample(fmt, v) ==
    CASE fmt = "I16" -> v
      [] fmt = "I8"  -> v * 256
      [] fmt = "U16" -> v - 32768
      [] fmt = "U8"  -> (v - 128) * 256
      [] OTHER       -> v

\* the callbacks' `channels_to_mono(..)` and `to_sample` on each element;
\* the devices of the model hand over whole frames, and a panicking call
\* yields no sample
Normalize(fmt, chans, data) ==
    LET mono == channels_to_mono(fmt, data, chans, FALSE) IN
    IF mono = None THEN <<>>
    ELSE [k \in 1..Len(Unwrap(mono)) |-> to_sample(fmt, Unwrap(mono)[k])]

\* the buffers a device hands its callback: whole frames of native samples
RECURSIVE SeqsOfLen(_, _)
SeqsOfLen(S, n) ==
    IF n = 0 THEN {<<>>}
    ELSE {Append(q, x) : q \in SeqsOfLen(S, n - 1), x \in S}

CallbackBuffers(fmt, chans) ==
    UNION {SeqsOfLen(NativeSamples(fmt), k * chans) : k \in 0..MaxFrames}

\* `for sample in data { if producer.try_push(..).is_err() { log } }`
RECURSIVE PushEach(_, _, _)
PushEach(q, capacity, samples) ==
    IF samples = <<>> THEN q
    ELSE PushEach(try_push(q, capacity, samples[1]), capacity, Tail(samples))

(***************************************************************************)
(* The capture callbacks, run by the audio subsystem while a stream plays. *)
(***************************************************************************)
\* a merge that leaves out the input samples for which the shared queue
\* has no partner
RECURSIVE PassthroughMergeSkipping(_, _, _)
PassthroughMergeSkipping(samples, ring, parsed_data) ==
    IF samples = <<>> THEN [ring |-> ring, parsed_data |-> parsed_data]
    ELSE IF ring # <<>>
      THEN PassthroughMergeSkipping(Tail(samples), Tail(ring),
                                    parsed_data \o <<samples[1], ring[1]>>)
      ELSE PassthroughMergeSkipping(Tail(samples), ring, parsed_data)

\* multiple_wo_resampler.rs:99-115: the passthrough input callback
RECURSIVE PassthroughMerge(_, _, _)
PassthroughMerge(samples, ring, parsed_data) ==
    IF samples = <<>> THEN [ring |-> ring, parsed_data |-> parsed_data]
    ELSE IF ring # <<>>
      THEN PassthroughMerge(Tail(samples), Tail(ring),
                            parsed_data \o <<samples[1], ring[1]>>)
      ELSE PassthroughMerge(Tail(samples), ring,
                            parsed_data \o <<samples[1], EQUILIBRIUM>>)

\* write_input_data: multiple_w_resampler.rs:97-108, 307-318,
\* multiple_wo_resampler.rs:99-115
InputCallbackWithin(s, data, limit) ==
    /\ Dual(s) /\ sessions[s].in_stream = "playing"
    /\ sessions[s].fed_in < limit
    /\ LET sess == sessions[s]
           config == Unwrap(host.input)
           mono == Normalize(sess.in_type, config.channels, data)
           fed == [sess EXCEPT !.fed_in = @ + 1,
                               !.heard_in = Append(@, data)]
       IN  CASE sess.path = "input_resampler" ->
                  Set(s, [fed EXCEPT
                             !.q_res = PushEach(@, sess.capacity, mono),
                             !.dropped =
                                 @ + Lost(sess.q_res, sess.capacity, mono),
                             !.drop_logs =
                                 @ + Lost(sess.q_res, sess.capacity, mono)])
             [] sess.path = "output_resampler" ->
                  Set(s, [fed EXCEPT
                             !.q_in = PushEach(@, sess.capacity, mono),
                             !.dropped =
                                 @ + Lost(sess.q_in, sess.capacity, mono),
                             !.drop_logs =
                                 @ + Lost(sess.q_in, sess.capacity, mono)])
             [] sess.path = "passthrough" ->
                  LET m == PassthroughMerge(mono, sess.q_out, <<>>) IN
                  Set(s, send([fed EXCEPT !.q_out = m.ring], m.parsed_data))
    /\ UNCHANGED Others

InputCallback(s, data) == InputCallbackWithin(s, data, MaxCallbacks)

\* an output callback that pushes into the staging queue in both
\* resampling paths, next to the input callback in one of them
OutputCallbackSharing(s, data, limit) ==
    /\ Dual(s) /\ sessions[s].out_stream = "playing"
    /\ sessions[s].fed_out < limit
    /\ LET sess == sessions[s]
           config == Unwrap(host.output)
           mono == Normalize(sess.out_type, config.channels, data)
           fed == [sess EXCEPT !.fed_out = @ + 1,
                               !.heard_out = Append(@, data)]
       IN  IF sess.path \in ResamplerPaths
             THEN Set(s, [fed EXCEPT
                             !.q_res = PushEach(@, sess.capacity, mono),
                             !.dropped =
                                 @ + Lost(sess.q_res, sess.capacity, mono),
                             !.drop_logs =
                                 @ + Lost(sess.q_res, sess.capacity, mono)])
             ELSE Set(s, [fed EXCEPT
                             !.q_out = PushEach(@, sess.capacity, mono),
                             !.dropped =
                                 @ + Lost(sess.q_out, sess.capacity, mono),
                             !.drop_logs =
                                 @ + Lost(sess.q_out, sess.capacity, mono)])
    /\ UNCHANGED Others

\* write_output_data: multiple_w_resampler.rs:84-95, 294-305,
\* multiple_wo_resampler.rs:86-97
OutputCallbackWithin(s, data, limit) ==
    /\ Dual(s) /\ sessions[s].out_stream = "playing"
    /\ sessions[s].fed_out < limit
    /\ LET sess == sessions[s]
           config == Unwrap(host.output)
           mono == Normalize(sess.out_type, config.channels, data)
           fed == [sess EXCEPT !.fed_out = @ + 1,
                               !.heard_out = Append(@, data)]
       IN  IF sess.path = "output_resampler"
             THEN Set(s, [fed EXCEPT
                             !.q_res = PushEach(@, sess.capacity, mono),
                             !.dropped =
                                 @ + Lost(sess.q_res, sess.capacity, mono),
                             !.drop_logs =
                                 @ + Lost(sess.q_res, sess.capacity, mono)])
             ELSE Set(s, [fed EXCEPT
                             !.q_out = PushEach(@, sess.capacity, mono),
                             !.dropped =
                                 @ + Lost(sess.q_out, sess.capacity, mono),
                             !.drop_logs =
                                 @ + Lost(sess.q_out, sess.capacity, mono)])
    /\ UNCHANGED Others

\* the callbacks, as often as the model follows them
OutputCallback(s, data) == OutputCallbackWithin(s, data, MaxCallbacks)

\* a single-device callback that downmixes as the dual-device ones do
SingleCallbackDownmix(s, data) ==
    /\ Single(s) /\ sessions[s].in_stream = "playing"
    /\ sessions[s].fed_in < MaxSingleCallbacks
    /\ LET config == Unwrap(host.input)
           parsed_data == Normalize(config.sample_format, config.channels,
                                    data)
       IN  Set(s, send([sessions[s] EXCEPT !.fed_in = @ + 1,
                                           !.heard_in = Append(@, data)],
                       parsed_data))
    /\ UNCHANGED Others

\* record_single_device.rs:55-66 (and the nine other arms): every native
\* sample is converted and the buffer sent as one chunk
SingleCallback(s, data) ==
    /\ Single(s) /\ sessions[s].in_stream = "playing"
    /\ sessions[s].fed_in < MaxSingleCallbacks
    /\ LET fmt == Unwrap(host.input).sample_format
           parsed_data == [k \in 1..Len(data) |-> to_sample(fmt, data[k])]
       IN  Set(s, send([sessions[s] EXCEPT !.fed_in = @ + 1,
                                           !.heard_in = Append(@, data)],
                       parsed_data))
    /\ UNCHANGED Others

(***************************************************************************)
(* The specifications.                                                     *)
(***************************************************************************)
Devices == {None} \cup {Some(c) : c \in DeviceConfigs}

\* Recorder::new (mod.rs:110-119), on a host with any default devices
Fresh ==
    /\ recording_signal = FALSE
    /\ lock = 0
    /\ target_rate = None
    /\ channels = None
    /\ sample_size = None
    /\ sessions = <<>>
    /\ api = [n |-> 0, op |-> "new", args |-> FALSE, result |-> Ok]

Init ==
    /\ host \in [input : Devices, output : Devices]
    /\ Fresh

Sessions == 1..Len(sessions)

StartAny == \E input_only \in BOOLEAN, qf \in 0..6 : Start(input_only, qf)

\* a step of the orchestration thread of session s
OrchestrationThread(s) ==
    \/ \E ok \in BOOLEAN : BuildInputStream(s, ok)
    \/ \E ok \in BOOLEAN : BuildOutputStream(s, ok)
    \/ SpawnResampler(s)
    \/ \E ok \in BOOLEAN : PlayInputStream(s, ok)
    \/ \E ok \in BOOLEAN : PlayOutputStream(s, ok)
    \/ Synchronize(s)
    \/ LockSignal(s)
    \/ ReadSignal(s)
    \/ \E ok \in BOOLEAN : PauseInputStream(s, ok)
    \/ \E ok \in BOOLEAN : PauseOutputStream(s, ok)
    \/ DropInputStream(s)
    \/ DropOutputStream(s)
    \/ Return(s)
    \/ \E ok \in BOOLEAN : SingleBuildStream(s, ok)
    \/ \E ok \in BOOLEAN : SinglePlayStream(s, ok)
    \/ SingleDropStream(s)

Orchestrate == \E s \in Sessions : OrchestrationThread(s)

\* a step of the resampler thread of session s
ResamplerThreadWith(s, blocks) ==
    \/ \E ok \in BOOLEAN, next \in blocks : ResamplerConstruct(s, ok, next)
    \/ ResamplerCheck(s)
    \/ \E ok \in BOOLEAN, frames \in 0..OutputFramesMax, next \in blocks :
          ResamplerStep(s, ok, frames, next)

\* with the engine the source builds, whose block never changes
ResamplerThread(s) == ResamplerThreadWith(s, {InputFramesNext})

Resample == \E s \in Sessions : ResamplerThread(s)

\* the session life cycle: the caller's start and stop calls and the
\* threads of every session they spawn
Next == StartAny \/ Stop \/ Orchestrate \/ Resample

Spec == Init /\ [][Next]_vars

StartOnce == sessions = <<>> /\ StartAny

StartDual == sessions = <<>> /\ \E qf \in 0..6 : Start(FALSE, qf)

\* the resampling paths with their data: one dual-device start on two mono
\* devices of different rates and encodings, and the threads and callbacks
\* of the session it spawns
DifferentRates ==
    {p \in (1..MaxRate) \X (1..MaxRate) : p[1] # p[2]}

SyncHosts ==
    {[input  |-> Some([sample_rate |-> p[1], channels |-> 1,
                       sample_format |-> "I16"]),
      output |-> Some([sample_rate |-> p[2], channels |-> 1,
                       sample_format |-> "U8"])] : p \in DifferentRates}

InitSync ==
    /\ host \in SyncHosts
    /\ Fresh

OrchestrateResampling ==
    \E s \in Sessions :
        \/ \E ok \in BOOLEAN : BuildInputStream(s, ok)
        \/ \E ok \in BOOLEAN : BuildOutputStream(s, ok)
        \/ SpawnResampler(s)
        \/ \E ok \in BOOLEAN : PlayInputStream(s, ok)
        \/ \E ok \in BOOLEAN : PlayOutputStream(s, ok)
        \/ Synchronize(s)
        \/ \E ok \in BOOLEAN : PauseInputStream(s, ok)
        \/ \E ok \in BOOLEAN : PauseOutputStream(s, ok)
        \/ DropInputStream(s)
        \/ DropOutputStream(s)
        \/ Return(s)

CaptureDual ==
    \E s \in Sessions :
        \/ \E data \in CallbackBuffers(sessions[s].in_type,
                                       Unwrap(host.input).channels) :
              InputCallback(s, data)
        \/ \E data \in CallbackBuffers(sessions[s].out_type,
                                       Unwrap(host.output).channels) :
              OutputCallback(s, data)

NextSync ==
    StartDual \/ Stop \/ OrchestrateResampling \/ Resample \/ CaptureDual

SpecSync == InitSync /\ [][NextSync]_vars

\* the Rate Reconciler on the sample rates devices commonly report: one
\* start on every pair of them
StandardRates ==
    {8000, 11025, 16000, 22050, 32000, 44100, 48000, 88200, 96000, 192000}

RateHosts ==
    {[input  |-> Some([sample_rate |-> r_in, channels |-> 1,
                       sample_format |-> "I16"]),
      output |-> Some([sample_rate |-> r_out, channels |-> 1,
                       sample_format |-> "I16"])] :
        r_in \in StandardRates, r_out \in StandardRates}

InitRates ==
    /\ host \in RateHosts
    /\ Fresh

NextRates == StartOnce

SpecRates == InitRates /\ [][NextRates]_vars

\* the passthrough path with its latency cushion: one dual-device start on
\* two mono devices of the same rate, a rate at which 150 ms is one frame
\* or two, and the threads and callbacks of the session it spawns
LatencyRates == {7, 14}

LatencyHosts ==
    {[input  |-> Some([sample_rate |-> r, channels |-> 1,
                       sample_format |-> "I16"]),
      output |-> Some([sample_rate |-> r, channels |-> 1,
                       sample_format |-> "U8"])] : r \in LatencyRates}

InitLatency ==
    /\ host \in LatencyHosts
    /\ Fresh

OrchestratePassthrough ==
    \E s \in Sessions :
        \/ \E ok \in BOOLEAN : BuildInputStream(s, ok)
        \/ \E ok \in BOOLEAN : BuildOutputStream(s, ok)
        \/ \E ok \in BOOLEAN : PlayInputStream(s, ok)
        \/ \E ok \in BOOLEAN : PlayOutputStream(s, ok)
        \/ LockSignal(s)
        \/ ReadSignal(s)
        \/ \E ok \in BOOLEAN : PauseInputStream(s, ok)
        \/ \E ok \in BOOLEAN : PauseOutputStream(s, ok)
        \/ DropInputStream(s)
        \/ DropOutputStream(s)
        \/ Return(s)

NextLatency == StartDual \/ Stop \/ OrchestratePassthrough \/ CaptureDual

SpecLatency == InitLatency /\ [][NextLatency]_vars

\* the single-device path with its data: one start(true) on an input
\* device of either channel count and of a signed or an unsigned encoding
SingleHosts ==
    {[input  |-> Some([sample_rate |-> 1, channels |-> c,
                       sample_format |-> f]),
      output |-> None] : c \in ChannelCounts, f \in {"I16", "U8"}}

InitSingle ==
    /\ host \in SingleHosts
    /\ Fresh

StartSingle == sessions = <<>> /\ \E qf \in 0..1 : Start(TRUE, qf)

OrchestrateSingle ==
    \E s \in Sessions :
        \/ \E ok \in BOOLEAN : SingleBuildStream(s, ok)
        \/ \E ok \in BOOLEAN : SinglePlayStream(s, ok)
        \/ LockSignal(s)
        \/ ReadSignal(s)
        \/ SingleDropStream(s)
        \/ Return(s)

CaptureSingle ==
    \E s \in Sessions :
        \E data \in CallbackBuffers(sessions[s].in_type,
                                   Unwrap(host.input).channels) :
            SingleCallback(s, data)

NextSingle == StartSingle \/ Stop \/ OrchestrateSingle \/ CaptureSingle

SpecSingle == InitSingle /\ [][NextSingle]_vars

\* the Resampler Stage with an engine whose block changes from step to
\* step: the resampling paths on devices of the two lowest rates, and an
\* engine that may ask for a block of any size up to InputFramesNext + 1
EngineBlocks == 1..(InputFramesNext + 1)

StageHosts ==
    {h \in SyncHosts : /\ Unwrap(h.input).sample_rate <= 2
                       /\ Unwrap(h.output).sample_rate <= 2}

InitStage ==
    /\ host \in StageHosts
    /\ Fresh

ResampleBlocks == \E s \in Sessions : ResamplerThreadWith(s, EngineBlocks)

NextStage ==
    StartDual \/ Stop \/ OrchestrateResampling \/ ResampleBlocks
        \/ CaptureDual

SpecStage == InitStage /\ [][NextStage]_vars

\* the resampling paths on devices whose rates are both above the capacity
\* of the queues (RESAMPLER_CHUNK_SIZE * 2): in the source's numbers, rates
\* above 88200 Hz such as 96000 and 192000
HighRates ==
    {RESAMPLER_CHUNK_SIZE * 2 + 1, RESAMPLER_CHUNK_SIZE * 2 + 2}

HighRateHosts ==
    {[input  |-> Some([sample_rate |-> p[1], channels |-> 1,
                       sample_format |-> "I16"]),
      output |-> Some([sample_rate |-> p[2], channels |-> 1,
                       sample_format |-> "U8"])] :
        p \in {q \in HighRates \X HighRates : q[1] # q[2]}}

InitHighRate ==
    /\ host \in HighRateHosts
    /\ Fresh

NextHighRate ==
    StartDual \/ Stop \/ OrchestrateResampling \/ Resample \/ CaptureDual

SpecHighRate == InitHighRate /\ [][NextHighRate]_vars

\* the shutdown of a session under fair scheduling: one start, of either
\* kind, on mono devices of equal or different rates, the threads of the
\* session it spawns, each of them scheduled again and again by the
\* operating system, and callbacks that deliver full buffers of one value
LiveHosts ==
    {[input  |-> Some([sample_rate |-> p[1], channels |-> 1,
                       sample_format |-> "I16"]),
      output |-> Some([sample_rate |-> p[2], channels |-> 1,
                       sample_format |-> "U8"])] : p \in (1..2) \X (1..2)}

InitLive ==
    /\ host \in LiveHosts
    /\ Fresh

FullBuffers(fmt, chans) ==
    {data \in CallbackBuffers(fmt, chans) :
        /\ Len(data) = MaxFrames * chans
        /\ \A i \in 1..Len(data) : data[i] = data[1]}

CaptureLive ==
    \E s \in Sessions :
        \/ \E data \in FullBuffers(sessions[s].in_type,
                                    Unwrap(host.input).channels) :
              InputCallback(s, data)
        \/ \E data \in FullBuffers(sessions[s].out_type,
                                    Unwrap(host.output).channels) :
              OutputCallback(s, data)
        \/ \E data \in FullBuffers(sessions[s].in_type,
                                    Unwrap(host.input).channels) :
              SingleCallback(s, data)

NextLive == StartOnce \/ Stop \/ Orchestrate \/ Resample \/ CaptureLive

\* every spawned thread that can take a step eventually takes one
FairThreads ==
    \A s \in 1..MaxCalls :
        /\ WF_vars(OrchestrationThread(s))
        /\ WF_vars(ResamplerThread(s))

SpecLive == InitLive /\ [][NextLive]_vars /\ FairThreads

\* a session whose consumer may go away: the caller drops the receiver that
\* start returned, at any moment, while the threads and callbacks go on
DropReceiver ==
    \E s \in Sessions :
        /\ sessions[s].rx
        /\ Set(s, [sessions[s] EXCEPT !.rx = FALSE])
        /\ UNCHANGED Others

NextDropped ==
    StartOnce \/ Stop \/ Orchestrate \/ Resample \/ CaptureLive
        \/ DropReceiver

SpecDropped == InitLive /\ [][NextDropped]_vars

(***************************************************************************)
(* Properties of the session life cycle.                                   *)
(***************************************************************************)
\* this step is a call of start / of stop
StartStep == api'.n # api.n /\ api'.op = "start"
StopStep == api'.n # api.n /\ api'.op = "stop"

Config == <<target_rate, channels, sample_size>>

MinOf(a, b) == IF a < b THEN a ELSE b
MaxOf(a, b) == IF a > b THEN a ELSE b

\* C1: a start called while the session is Recording (the call before it
\* was a start that returned Ok) is rejected with RecordingInProgress and
\* the first session is unaffected: the flag stays true, the derived
\* configuration is unchanged, and no thread, stream, queue or channel is
\* created or changed.
C1_SecondStartRejected ==
    [][(recording_signal /\ api.op = "start" /\ api.result = Ok
            /\ StartStep) =>
          /\ api'.result = RecordingInProgress
          /\ recording_signal'
          /\ UNCHANGED <<Config, sessions, lock, host>>]_vars

\* C2 (as claimed): whenever start returns an error other than the
\* rejection of a second start, the session is Idle afterwards: the flag is
\* false, so that a following start is not rejected.
C2_StartErrorLeavesIdle ==
    (api.op = "start" /\ api.result \notin {Ok, FailedToPrepare})
        => ~recording_signal

\* C3: stop on an Idle session returns Ok and changes nothing (flag,
\* derived configuration, threads); every stop leaves the flag false and
\* the sample rate unset, so a stop that follows a stop changes nothing.
C3_StopIdempotent ==
    [][StopStep =>
          /\ api'.result = Ok
          /\ ~recording_signal' /\ target_rate' = None
          /\ UNCHANGED <<sessions, lock, host>>
          /\ ~recording_signal =>
                UNCHANGED <<recording_signal, Config>>]_vars

\* a stop on an Idle session that has a derived configuration left from an
\* earlier session: the third call, after start and stop
C3_Witness ==
    /\ api.op = "stop" /\ api.n = 3
    /\ ~recording_signal
    /\ channels # None /\ sample_size # None
    /\ Len(sessions) = 1

\* what a caller observes of a running session
C4_Recording == recording_signal /\ get_is_recording /\ get_config.result = Ok

\* C4: from the moment start(false) has returned Ok and until stop is
\* called, get_is_recording returns true and get_config returns Ok.
C4_RecordingUntilStop ==
    /\ []((api.op = "start" /\ api.args = FALSE /\ api.result = Ok)
             => C4_Recording)
    /\ [][(C4_Recording /\ ~StopStep) => C4_Recording']_vars

\* a dual-device session is running, a worker thread holds the flag's
\* mutex, and a later start has been rejected
C4_Witness ==
    /\ api.op = "start" /\ api.result = FailedToPrepare
    /\ C4_Recording
    /\ lock # 0
    /\ \E s \in Sessions : sessions[s].path = "passthrough"

\* C5: get_config returns an error whenever the rate, the channels or the
\* sample size is unset, as on a fresh session; it returns Ok only when all
\* three are set, and then reports them.
C5_ConfigNeedsAllThree ==
    /\ (get_config.result = Ok) <=>
          (target_rate # None /\ channels # None /\ sample_size # None)
    /\ get_config.result = Ok =>
          get_config.config =
              Some([sample_rate |-> target_rate[1], channels |-> channels[1],
                    sample_size |-> sample_size[1]])
    /\ api.n = 0 => get_config.result # Ok

\* get_config fails although a path has set channels and sample size:
\* stop has unset the rate
C5_Witness ==
    /\ get_config.result # Ok
    /\ channels # None /\ sample_size # None
    /\ api.op = "stop"

\* the derived configuration the paths populate on this host
PopulatedConfigs ==
    {NoConfig}
    \cup (IF host.input = None THEN {}
          ELSE {[target_rate |-> Some(Unwrap(host.input).sample_rate),
                 channels    |-> Some(Unwrap(host.input).channels),
                 sample_size |->
                     Some(SampleSize(Unwrap(host.input).sample_format))]})
    \cup (IF host.input = None \/ host.output = None THEN {}
          ELSE {[target_rate |-> Some(MinOf(Unwrap(host.input).sample_rate,
                                            Unwrap(host.output).sample_rate)),
                 channels    |-> Some(2),
                 sample_size |->
                     Some(SampleSize(Unwrap(host.input).sample_format))]})

\* C6: Idle -> Recording -> Idle, restartable.  A start from Idle is
\* accepted (not rejected as already recording), sets the flag and resets
\* the derived configuration: what is left is what this call's path
\* populated, all three fields or none, and a start that returns Ok has
\* populated all three and spawned one session.  A stop clears the flag.
C6_Lifecycle ==
    [][/\ (~recording_signal /\ StartStep) =>
             /\ api'.result # FailedToPrepare
             /\ recording_signal'
             /\ [target_rate |-> target_rate', channels |-> channels',
                 sample_size |-> sample_size'] \in PopulatedConfigs
             /\ api'.result = Ok =>
                   /\ target_rate' # None
                   /\ Len(sessions') = Len(sessions) + 1
       /\ StopStep => ~recording_signal']_vars

\* the session has been restarted: start, stop, start, and two sessions
\* were spawned
C6_Witness ==
    /\ api.n = 3 /\ api.op = "start" /\ api.result = Ok
    /\ recording_signal
    /\ Len(sessions) = 2

(***************************************************************************)
(* Properties of the Rate Reconciler.                                      *)
(***************************************************************************)
InputRate == Unwrap(host.input).sample_rate
OutputRate == Unwrap(host.output).sample_rate

DualStarted == api.op = "start" /\ api.args = FALSE /\ api.result = Ok

\* C7: for the two devices' rates (r_in, r_out) one of passthrough (None),
\* input resampler and output resampler is started: r_in < r_out starts the
\* output resampler, r_in > r_out the input resampler, in both with target
\* rate min(r_in, r_out) and source rate max(r_in, r_out); r_in = r_out
\* starts the passthrough path; and the derived sample rate is the target
\* rate, r_in when the rates are equal.
C7_RateReconciler ==
    \A s \in Sessions :
        sessions[s].path # "single" =>
            /\ InputRate < OutputRate =>
                  /\ sessions[s].path = "output_resampler"
                  /\ sessions[s].target_rate = MinOf(InputRate, OutputRate)
                  /\ sessions[s].origin_rate = MaxOf(InputRate, OutputRate)
            /\ InputRate > OutputRate =>
                  /\ sessions[s].path = "input_resampler"
                  /\ sessions[s].target_rate = MinOf(InputRate, OutputRate)
                  /\ sessions[s].origin_rate = MaxOf(InputRate, OutputRate)
            /\ InputRate = OutputRate => sessions[s].path = "passthrough"
            /\ DualStarted =>
                  target_rate = Some(MinOf(InputRate, OutputRate))

\* a dual-device start on an input device slower than the output device
C7_Witness ==
    /\ DualStarted
    /\ InputRate < OutputRate
    /\ Len(sessions) = 1 /\ sessions[1].path = "output_resampler"

Scenario48000_44100 ==
    /\ host.input # None /\ host.output # None
    /\ InputRate = 48000 /\ OutputRate = 44100
    /\ DualStarted

\* C8 (as claimed): with input = 48000 and output = 44100 the stream
\* selected for resampling is the Output stream and the target rate is
\* 44100.
C8_OutputResampled ==
    Scenario48000_44100 =>
        /\ sessions[1].path = "output_resampler"
        /\ target_rate = Some(44100)

\* C8 (amended): with input = 48000 and output = 44100 the stream selected
\* for resampling is the Input stream, from 48000 to the target rate 44100.
C8_InputResampled ==
    Scenario48000_44100 =>
        /\ Len(sessions) = 1
        /\ sessions[1].path = "input_resampler"
        /\ sessions[1].target_rate = 44100
        /\ sessions[1].origin_rate = 48000
        /\ target_rate = Some(44100)

\* a dual-device start on an input device at 48000 and an output device at
\* 44100 has returned Ok
C8_Witness == Scenario48000_44100 /\ Len(sessions) = 1

\* C9: after a successful dual-device start get_config reports 2 channels,
\* whatever the devices' native channel counts, and the sample rate
\* min(r_in, r_out).
C9_DualConfig ==
    DualStarted =>
        /\ get_config.result = Ok
        /\ Unwrap(get_config.config).channels = 2
        /\ Unwrap(get_config.config).sample_rate
              = MinOf(InputRate, OutputRate)

\* a dual-device session on two mono devices of different rates
C9_Witness ==
    /\ DualStarted
    /\ Unwrap(host.input).channels = 1 /\ Unwrap(host.output).channels = 1
    /\ InputRate # OutputRate
    /\ get_config.result = Ok

(***************************************************************************)
(* Properties of the synchronizer of the resampling paths.                 *)
(***************************************************************************)
\* the synchronizer of session s sends a chunk in this step
Sends(s) ==
    /\ s \in 1..Len(sessions) /\ sessions[s].path \in ResamplerPaths
    /\ Len(sessions'[s].chan) = Len(sessions[s].chan) + 1

LastChunk(s) == sessions'[s].chan[Len(sessions'[s].chan)]

\* the slots of one side of a chunk: the odd ones carry the input side
InputSlots(chunk) == [k \in 1..(Len(chunk) \div 2) |-> chunk[2 * k - 1]]
OutputSlots(chunk) == [k \in 1..(Len(chunk) \div 2) |-> chunk[2 * k]]

\* a queue of n < rate samples yields its n samples in order, then
\* equilibrium up to the length rate
Underrun(queue, slots, rate) ==
    Len(queue) < rate =>
        slots = queue \o [k \in 1..(rate - Len(queue)) |-> EQUILIBRIUM]

\* C10: when the synchronizer merges and one side's final queue holds
\* n < target_rate samples (n = 0 included), the chunk it sends still has
\* 2 * target_rate elements: that side's first n slots carry its n queued
\* samples in order and its other target_rate - n slots are equilibrium.
C10_UnderrunPadded ==
    [][\A s \in 1..Len(sessions) :
          Sends(s) =>
             LET rate == MinOf(InputRate, OutputRate) IN
             /\ Len(LastChunk(s)) = 2 * rate
             /\ Underrun(sessions[s].q_in, InputSlots(LastChunk(s)), rate)
             /\ Underrun(sessions[s].q_out, OutputSlots(LastChunk(s)),
                         rate)]_vars

\* a chunk of target rate 2 whose output side is one sample followed by
\* padding (no output sample of the model converts to equilibrium) next to
\* a full input side
C10_Witness ==
    \E s \in Sessions :
        /\ sessions[s].path \in ResamplerPaths
        /\ sessions[s].target_rate = 2
        /\ \E i \in 1..Len(sessions[s].chan) :
              LET out == OutputSlots(sessions[s].chan[i])
                  inp == InputSlots(sessions[s].chan[i])
              IN  /\ Len(sessions[s].chan[i]) = 4
                  /\ out[1] # EQUILIBRIUM /\ out[2] = EQUILIBRIUM
                  /\ inp[1] # EQUILIBRIUM /\ inp[2] # EQUILIBRIUM

\* what the synchronizer's buffer holds at position k after pop_slice from
\* the queue: the k-th queued sample, or equilibrium
Popped(queue, k) == IF k <= Len(queue) THEN queue[k] ELSE EQUILIBRIUM

\* C11: every chunk the synchronizer of a resampling path sends has
\* 2 * target_rate elements and is [in0, out0, in1, out1, ...]: for every
\* position k below target_rate, element 2k (counted from 0) is what the
\* input side's buffer holds at k and element 2k + 1 what the output side's
\* buffer holds at k.
C11_ChunkInterleaved ==
    [][\A s \in 1..Len(sessions) :
          Sends(s) =>
             LET rate == MinOf(InputRate, OutputRate) IN
             /\ Len(LastChunk(s)) = 2 * rate
             /\ \A k \in 1..rate :
                   /\ LastChunk(s)[2 * k - 1] = Popped(sessions[s].q_in, k)
                   /\ LastChunk(s)[2 * k] = Popped(sessions[s].q_out, k)]_vars

\* a chunk of target rate 2 with two captured samples on either side, the
\* two sides differing at both positions
C11_Witness ==
    \E s \in Sessions :
        /\ sessions[s].path \in ResamplerPaths
        /\ sessions[s].target_rate = 2
        /\ \E i \in 1..Len(sessions[s].chan) :
              LET chunk == sessions[s].chan[i] IN
              /\ Len(chunk) = 4
              /\ \A j \in 1..4 : chunk[j] # EQUILIBRIUM
              /\ chunk[1] # chunk[2] /\ chunk[3] # chunk[4]

(***************************************************************************)
(* Properties of the passthrough path.                                     *)
(***************************************************************************)
\* everything the consumer has received from a session, in order
RECURSIVE Flatten(_)
Flatten(chunks) ==
    IF chunks = <<>> THEN <<>> ELSE chunks[1] \o Flatten(Tail(chunks))

\* the samples of the latency cushion: 150 ms of the input device's frames
Cushion == latency_samples(Unwrap(host.input))

PassthroughSessions == {s \in Sessions : sessions[s].path = "passthrough"}

\* C12 (as claimed): on two mono sources of the same rate the first
\* 0.15 * rate * 2 samples the consumer receives are all equilibrium
\* padding.
C12_FirstSamplesSilent ==
    \A s \in PassthroughSessions :
        LET received == Flatten(sessions[s].chan) IN
        \A j \in 1..Len(received) :
            j <= 2 * Cushion => received[j] = EQUILIBRIUM

\* C12 (amended): of the first 0.15 * rate * 2 samples the consumer
\* receives, the output-side slots (odd indices counted from 0) are all
\* equilibrium padding, while the input-side slots carry the captured
\* input samples from the first one on, none of them silent here.
C12_FirstOutputSlotsSilent ==
    \A s \in PassthroughSessions :
        LET received == Flatten(sessions[s].chan) IN
        /\ Len(received) % 2 = 0
        /\ \A j \in 1..Len(received) :
              /\ (j % 2 = 0 /\ j <= 2 * Cushion) =>
                    received[j] = EQUILIBRIUM
              /\ j % 2 = 1 => received[j] # EQUILIBRIUM

\* the consumer has received the whole cushion of a session and, right
\* after it, a pair with a captured output sample
C12_Witness ==
    \E s \in PassthroughSessions :
        LET received == Flatten(sessions[s].chan) IN
        /\ Cushion >= 1
        /\ Len(received) >= 2 * Cushion + 2
        /\ received[1] # EQUILIBRIUM
        /\ received[2 * Cushion + 2] # EQUILIBRIUM

(***************************************************************************)
(* Properties of the single-device path.                                   *)
(***************************************************************************)
SingleSessions == {s \in Sessions : sessions[s].path = "single"}

\* C13: in the single-device path the i-th chunk on the channel comes from
\* the i-th callback buffer: it has as many samples as the buffer has native
\* samples (no downmix, no resampling, no interleaving) and its k-th sample
\* is the conversion of the buffer's k-th native sample.
C13_SingleChunks ==
    \A s \in SingleSessions :
        LET fmt == Unwrap(host.input).sample_format
            chan == sessions[s].chan
            heard == sessions[s].heard_in
        IN  /\ Len(chan) = Len(heard)
            /\ \A i \in 1..Len(chan) :
                  /\ Len(chan[i]) = Len(heard[i])
                  /\ \A k \in 1..Len(chan[i]) :
                        chan[i][k] = to_sample(fmt, heard[i][k])

\* two callbacks of a stereo 8-bit unsigned device, of one frame each: two
\* chunks of two samples, (v - 128) / 128 each
C13_Witness ==
    \E s \in SingleSessions :
        /\ Unwrap(host.input).channels = 2
        /\ sessions[s].heard_in = << <<127, 130>>, <<130, 130>> >>
        /\ sessions[s].chan = << <<-256, 512>>, <<512, 512>> >>

(***************************************************************************)
(* Properties of the dispatch on the sample format.                        *)
(***************************************************************************)
\* the sample formats of the devices a start(input_only) uses
FormatsUsed(input_only) ==
    IF host.input = None THEN {}
    ELSE {Unwrap(host.input).sample_format}
         \cup (IF input_only \/ host.output = None THEN {}
               ELSE {Unwrap(host.output).sample_format})

\* C14: in every path a device reporting a sample format outside the ten
\* supported encodings makes start fail with an error: start does not
\* return Ok, and no thread of a session panics.
C14_UnsupportedFormatFails ==
    /\ (api.op = "start" /\ api.result = Ok) =>
          FormatsUsed(api.args) \subseteq SupportedFormats
    /\ \A s \in Sessions : sessions[s].orch # "panicked"

\* C15: in every dual-device path the sample type each side's capture
\* callback and normalizer is instantiated with is the sample format that
\* side's device reports.
C15_CallbackTypes ==
    \A s \in Sessions :
        sessions[s].path # "single" =>
            /\ sessions[s].in_type = Unwrap(host.input).sample_format
            /\ sessions[s].out_type = Unwrap(host.output).sample_format

(***************************************************************************)
(* C16  The channel closes after stop.                                     *)
(***************************************************************************)
Stopped(s) == api.op = "stop" /\ s \in Sessions

Closed(s) == s \in Sessions /\ ~sessions[s].tx

\* C16: once stop has been called on a session and no start follows, the
\* session's sender is eventually dropped under fair scheduling, and no
\* chunk joins the channel of a session whose sender is dropped.
C16_ChannelCloses ==
    /\ \A s \in 1..MaxCalls :
          Stopped(s) ~> (api.op = "start" \/ Closed(s))
    /\ [][\A s \in Sessions :
             ~sessions[s].tx => sessions'[s].chan = sessions[s].chan]_vars

\* a session that delivered a chunk, was stopped and closed its channel
C16_Witness ==
    \E s \in Sessions :
        /\ api.op = "stop"
        /\ sessions[s].orch = "done"
        /\ ~sessions[s].tx
        /\ sessions[s].chan # <<>>

(***************************************************************************)
(* C17  One active session.                                                *)
(***************************************************************************)
OrchestrationExited(s) == sessions[s].orch \in {"done", "aborted", "panicked"}

ResamplerExited(s) == sessions[s].res \in {"none", "failed", "exited"}

StreamsReleased(s) ==
    /\ sessions[s].in_stream \in {"none", "dropped"}
    /\ sessions[s].out_stream \in {"none", "dropped"}

Exited(s) ==
    /\ s \in Sessions
    /\ OrchestrationExited(s)
    /\ ResamplerExited(s)
    /\ StreamsReleased(s)

\* C17: when a call of start succeeds, every thread of every earlier session
\* has exited and every stream of every earlier session is released.
C17_OneActiveSession ==
    [][(StartStep /\ api'.result = Ok) =>
          \A s \in Sessions : Exited(s)]_vars

(***************************************************************************)
(* C18  Cooperative cancellation.                                          *)
(***************************************************************************)
\* the orchestration thread of s left its loop on reading the flag false
LeftLoop(s) ==
    sessions[s].orch = "done" => sessions[s].observed = Some(FALSE)

\* C18: once stop has been called and no start follows, under fair scheduling
\* every thread of the session eventually exits, the looping ones on reading
\* the flag false, and the streams are released; stop itself changes no
\* thread and no stream, it returns without waiting for them.
C18_ThreadsExit ==
    /\ \A s \in 1..MaxCalls :
          Stopped(s) ~> (api.op = "start" \/ (Exited(s) /\ LeftLoop(s)))
    /\ [][StopStep => UNCHANGED sessions]_vars

\* a stopped session of a resampling path whose two threads left their loops
C18_Witness ==
    \E s \in Sessions :
        /\ api.op = "stop"
        /\ Exited(s)
        /\ sessions[s].orch = "done"
        /\ sessions[s].observed = Some(FALSE)
        /\ sessions[s].res = "exited"

(***************************************************************************)
(* C19  Shutdown order in the dual-device paths.                           *)
(***************************************************************************)
\* the step pauses, releases a stream of session s, or ends its thread
Pauses(s) ==
    \/ sessions'[s].in_stream = "paused" /\ sessions[s].in_stream # "paused"
    \/ sessions'[s].out_stream = "paused" /\ sessions[s].out_stream # "paused"

Releases(s) ==
    \/ sessions'[s].in_stream = "dropped" /\ sessions[s].in_stream # "dropped"
    \/ sessions'[s].out_stream = "dropped"
          /\ sessions[s].out_stream # "dropped"

Returns(s) ==
    /\ sessions'[s].orch \in {"done", "aborted"}
    /\ sessions[s].orch \notin {"done", "aborted"}

BothPaused(s) ==
    /\ sessions[s].in_stream \in {"paused", "dropped"}
    /\ sessions[s].out_stream \in {"paused", "dropped"}

\* the thread is past both calls of pause()
BothPausesTried(s) == sessions[s].orch \in {"drop_in", "drop_out"}

\* the step is the early return on an error of build_input_stream or play
EarlyReturn(s) ==
    /\ sessions'[s].orch = "aborted"
    /\ sessions[s].orch \in {"build_in", "build_out", "play_in", "play_out"}
    /\ sessions[s].observed = None

\* C19 as stated: in a dual-device session a stream is paused only after the
\* thread read the flag false, streams are released only when both are
\* paused, the thread returns only with every stream it built released, and
\* no stream is paused or released while the thread last read the flag true.
C19_ShutdownOrder ==
    [][\A s \in Sessions : Dual(s) =>
          /\ Pauses(s) => sessions[s].observed = Some(FALSE)
          /\ Releases(s) => BothPaused(s)
          /\ Returns(s) =>
                /\ sessions'[s].in_stream \in {"none", "dropped"}
                /\ sessions'[s].out_stream \in {"none", "dropped"}
          /\ sessions[s].observed = Some(TRUE) =>
                ~Pauses(s) /\ ~Releases(s)]_vars

\* C19 amended: a stream is paused only after the thread read the flag
\* false; streams are released only after the thread read the flag false and
\* called pause on both, whether or not the pauses succeeded, or in the
\* early return on a build or play error, taken before the flag is read;
\* the thread ends only with every stream it built released; no stream is
\* paused or released while the thread last read the flag true.
C19_ShutdownOrderOrEarlyReturn ==
    [][\A s \in Sessions : Dual(s) =>
          /\ Pauses(s) => sessions[s].observed = Some(FALSE)
          /\ Releases(s) =>
                \/ BothPausesTried(s) /\ sessions[s].observed = Some(FALSE)
                \/ EarlyReturn(s)
          /\ Returns(s) =>
                /\ sessions'[s].in_stream \in {"none", "dropped"}
                /\ sessions'[s].out_stream \in {"none", "dropped"}
                /\ sessions'[s].orch = "aborted" => EarlyReturn(s)
          /\ sessions[s].observed = Some(TRUE) =>
                ~Pauses(s) /\ ~Releases(s)]_vars

\* a dual-device session that went through the whole shutdown after a stop
C19_Witness ==
    \E s \in Sessions :
        /\ Dual(s)
        /\ api.op = "stop"
        /\ sessions[s].orch = "done"
        /\ sessions[s].observed = Some(FALSE)
        /\ sessions[s].in_stream = "dropped"
        /\ sessions[s].out_stream = "dropped"

(***************************************************************************)
(* C20  Sample order within one side.                                      *)
(***************************************************************************)
\* the values of one side's slots (1: input, 2: output) in the chunks
\* delivered so far, padding left out
RECURSIVE SideSlots(_, _)
SideSlots(samples, side) ==
    IF Len(samples) < 2 THEN <<>>
    ELSE (IF samples[side] = EQUILIBRIUM THEN <<>> ELSE <<samples[side]>>)
           \o SideSlots(Tail(Tail(samples)), side)

\* the mono samples a side's callback produced, buffer after buffer
RECURSIVE Produced(_, _, _)
Produced(fmt, chans, buffers) ==
    IF buffers = <<>> THEN <<>>
    ELSE Normalize(fmt, chans, buffers[1])
           \o Produced(fmt, chans, Tail(buffers))

\* a is b with some elements left out
RECURSIVE IsSubsequence(_, _)
IsSubsequence(a, b) ==
    IF a = <<>> THEN TRUE
    ELSE IF b = <<>> THEN FALSE
    ELSE IF a[1] = b[1] THEN IsSubsequence(Tail(a), Tail(b))
    ELSE IsSubsequence(a, Tail(b))

\* C20: in every session of a resampling path the values in the input slots
\* of the delivered chunks, padding aside, are a subsequence of the mono
\* samples the input callback produced, and the values in the output slots
\* a subsequence of those the output callback produced (the resampling
\* engine of the model hands on a prefix of each block it is given).
C20_OrderPreserved ==
    \A s \in Sessions : Resampling(s) =>
        /\ IsSubsequence(SideSlots(Flatten(sessions[s].chan), 1),
                         Produced(sessions[s].in_type,
                                  Unwrap(host.input).channels,
                                  sessions[s].heard_in))
        /\ IsSubsequence(SideSlots(Flatten(sessions[s].chan), 2),
                         Produced(sessions[s].out_type,
                                  Unwrap(host.output).channels,
                                  sessions[s].heard_out))

(***************************************************************************)
(* C21  Backpressure: a capture callback never waits for room.             *)
(***************************************************************************)
\* the queue a side's callback pushes to ("none": the passthrough input
\* callback, which pushes to no queue)
InputDestination(sess) ==
    CASE sess.path = "input_resampler" -> "q_res"
      [] sess.path = "output_resampler" -> "q_in"
      [] OTHER -> "none"

OutputDestination(sess) ==
    IF sess.path = "output_resampler" THEN "q_res" ELSE "q_out"

\* after is before followed by as many of the samples, taken from the
\* front, as the capacity leaves room for
PushedWhatFits(before, after, capacity, samples) ==
    LET room == capacity - Len(before)
        n == IF Len(samples) < room THEN Len(samples) ELSE room
    IN  after = before \o SubSeq(samples, 1, n)

\* the step is a callback of session s on that side
InputCalled(s) == sessions'[s].fed_in = sessions[s].fed_in + 1

OutputCalled(s) == sessions'[s].fed_out = sessions[s].fed_out + 1

\* C21: no queue of a dual-device session ever holds more than its
\* capacity; a callback leaves what its destination queue held in place and
\* adds, in order, only the samples for which there is room, the others are
\* dropped; and a playing stream's callback can run whatever the queue
\* holds, full or not.
C21_CallbackNeverWaits ==
    /\ [](\A s \in Sessions : Dual(s) =>
            /\ Len(sessions[s].q_res) <= sessions[s].capacity
            /\ Len(sessions[s].q_in) <= sessions[s].capacity
            /\ Len(sessions[s].q_out) <= sessions[s].capacity)
    /\ [][\A s \in Sessions : Dual(s) =>
            /\ (InputCalled(s) /\ InputDestination(sessions[s]) # "none") =>
                  PushedWhatFits(
                      sessions[s][InputDestination(sessions[s])],
                      sessions'[s][InputDestination(sessions[s])],
                      sessions[s].capacity,
                      Normalize(sessions[s].in_type,
                                Unwrap(host.input).channels,
                                sessions'[s].heard_in[
                                    Len(sessions'[s].heard_in)]))
            /\ OutputCalled(s) =>
                  PushedWhatFits(
                      sessions[s][OutputDestination(sessions[s])],
                      sessions'[s][OutputDestination(sessions[s])],
                      sessions[s].capacity,
                      Normalize(sessions[s].out_type,
                                Unwrap(host.output).channels,
                                sessions'[s].heard_out[
                                    Len(sessions'[s].heard_out)]))]_vars
    /\ [](\A s \in Sessions :
            (Dual(s) /\ sessions[s].out_stream = "playing"
                /\ sessions[s].fed_out < MaxCallbacks) =>
              \A data \in CallbackBuffers(sessions[s].out_type,
                                          Unwrap(host.output).channels) :
                  ENABLED OutputCallback(s, data))

\* an output callback found its queue too full for its buffer: the queue
\* is at capacity and holds less than what was pushed to it
C21_Witness ==
    \E s \in Sessions :
        /\ Dual(s)
        /\ sessions[s].fed_out = 1 /\ sessions[s].fed_in = 0
        /\ Len(sessions[s].q_out) = sessions[s].capacity
        /\ Len(Produced(sessions[s].out_type, Unwrap(host.output).channels,
                        sessions[s].heard_out))
             > sessions[s].capacity - Cushion

(***************************************************************************)
(* C22  Queue capacity against the synchronizer's chunk size.              *)
(***************************************************************************)
\* C22: in every session of a resampling path the capacity of the queues is
\* at least twice the target rate, the number of samples the synchronizer
\* takes from a side for one chunk.
C22_CapacityTwiceChunk ==
    \A s \in Sessions : Resampling(s) =>
        sessions[s].capacity >= 2 * sessions[s].target_rate

(***************************************************************************)
(* C23  The synchronizer eventually sends.                                 *)
(***************************************************************************)
Full(queue, sess) == Len(queue) = sess.capacity

\* the condition under which a cycle of the synchronizer pops and sends
SendCondition(sess) ==
    Len(sess.q_out) >= sess.target_rate \/ Len(sess.q_in) >= sess.target_rate

\* C23: whenever a session of a resampling path is recording, its
\* synchronizer is in its loop and the deliveries have filled a final queue
\* to its capacity, the synchronizer's condition for sending a chunk holds.
\* (Were it false in such a state, the full queue could take no further
\* sample, and with both callbacks delivering for ever no chunk would be
\* sent.)
C23_FullQueueIsSent ==
    \A s \in Sessions :
        (/\ Resampling(s)
         /\ recording_signal
         /\ sessions[s].orch = "sync"
         /\ Full(sessions[s].q_in, sessions[s])
              \/ Full(sessions[s].q_out, sessions[s]))
          => SendCondition(sessions[s])

(***************************************************************************)
(* C24  When the synchronizer pops and sends.                              *)
(***************************************************************************)
\* the number of samples the step takes from the front of a final queue
PoppedIn(s) == Len(sessions[s].q_in) - Len(sessions'[s].q_in)

PoppedOut(s) == Len(sessions[s].q_out) - Len(sessions'[s].q_out)

\* C24: in a resampling path a step pops from a final queue or sends a chunk
\* only if a final queue held at least target_rate samples; such a step
\* sends exactly one chunk and takes at most target_rate samples from each
\* side; and while both queues hold fewer, no step pops or sends.
C24_PopsOnlyWhenReady ==
    [][\A s \in Sessions : Resampling(s) =>
          /\ (PoppedIn(s) > 0 \/ PoppedOut(s) > 0 \/ Sends(s)) =>
                /\ SendCondition(sessions[s])
                /\ Sends(s)
                /\ PoppedIn(s) <= sessions[s].target_rate
                /\ PoppedOut(s) <= sessions[s].target_rate
          /\ ~SendCondition(sessions[s]) =>
                /\ PoppedIn(s) <= 0 /\ PoppedOut(s) <= 0
                /\ sessions'[s].chan = sessions[s].chan]_vars

\* a chunk was sent from a queue that held more than target_rate samples:
\* the rest is still queued
C24_Witness ==
    \E s \in Sessions :
        /\ Resampling(s)
        /\ Len(sessions[s].chan) = 1
        /\ sessions[s].fed_out = 1 /\ sessions[s].fed_in = 0
        /\ sessions[s].path = "input_resampler"
        /\ sessions[s].q_out # <<>>

(***************************************************************************)
(* C25  A failed send never ends a loop.                                   *)
(***************************************************************************)
\* the step drops the receiver of session s
ReceiverDropped(s) == sessions[s].rx /\ ~sessions'[s].rx

\* the step is a send of session s that fails
SendFailed(s) == sessions'[s].unsent = sessions[s].unsent + 1

\* the places of the orchestration thread behind its loop
AfterLoop ==
    {"pause_in", "pause_out", "drop_in", "drop_out", "drop", "return", "done"}

\* C25: the drop of the receiver and every send that fails for it leave the
\* recording signal, every thread's place, the streams and the sender as
\* they are, and the chunk of a failed send is discarded; with the receiver
\* gone as with it, a thread is behind its loop only after it has read the
\* flag false.
C25_SendFailureIgnored ==
    /\ [][\A s \in Sessions :
            (ReceiverDropped(s) \/ SendFailed(s)) =>
               /\ recording_signal' = recording_signal
               /\ sessions'[s].orch = sessions[s].orch
               /\ sessions'[s].res = sessions[s].res
               /\ sessions'[s].in_stream = sessions[s].in_stream
               /\ sessions'[s].out_stream = sessions[s].out_stream
               /\ sessions'[s].tx = sessions[s].tx
               /\ sessions'[s].chan = sessions[s].chan]_vars
    /\ [](\A s \in Sessions :
            sessions[s].orch \in AfterLoop =>
                sessions[s].observed = Some(FALSE))

\* a send has failed and the session is still recording, its thread still
\* in its loop
C25_Witness ==
    \E s \in Sessions :
        /\ ~sessions[s].rx
        /\ sessions[s].unsent >= 1
        /\ recording_signal
        /\ sessions[s].orch \in {"sync", "poll", "locked"}

(***************************************************************************)
(* C26  The engine cannot be constructed.                                  *)
(***************************************************************************)
\* the final queue the resampler thread pushes to, and that side's slots
ResampledQueue(sess) ==
    IF sess.path = "input_resampler" THEN sess.q_in ELSE sess.q_out

ResampledSlots(sess, chunk) ==
    IF sess.path = "input_resampler" THEN InputSlots(chunk)
                                     ELSE OutputSlots(chunk)

ConstructionFails(s) ==
    sessions[s].res = "construct" /\ sessions'[s].res = "failed"

\* C26: the step in which the construction of the engine fails changes
\* nothing but the resampler thread, which has exited: the recording signal,
\* the orchestration thread, the streams and the channel are as before.
\* From then on the resampled side's final queue is empty and every chunk
\* sent carries only equilibrium on the resampled side.
C26_EngineFailure ==
    /\ [][\A s \in Sessions : ConstructionFails(s) =>
            /\ recording_signal' = recording_signal
            /\ api' = api
            /\ sessions' = [sessions EXCEPT ![s].res = "failed"]]_vars
    /\ [](\A s \in Sessions :
            (Resampling(s) /\ sessions[s].res = "failed") =>
               /\ ResampledQueue(sessions[s]) = <<>>
               /\ \A i \in 1..Len(sessions[s].chan) :
                     \A k \in 1..sessions[s].target_rate :
                        ResampledSlots(sessions[s], sessions[s].chan[i])[k]
                            = EQUILIBRIUM)

\* the engine could not be constructed, the session is recording and the
\* synchronizer has sent a chunk with the other side's audio
C26_Witness ==
    \E s \in Sessions :
        /\ Resampling(s)
        /\ sessions[s].res = "failed"
        /\ recording_signal /\ api.op = "start" /\ api.result = Ok
        /\ sessions[s].orch = "sync"
        /\ sessions[s].in_stream = "playing"
        /\ sessions[s].out_stream = "playing"
        /\ \E i \in 1..Len(sessions[s].chan) :
              \E k \in 1..Len(sessions[s].chan[i]) :
                 sessions[s].chan[i][k] # EQUILIBRIUM

(***************************************************************************)
(* C27  The Resampler Stage feeds the engine whole blocks.                 *)
(***************************************************************************)
\* the number of samples the step takes from the staging queue
PoppedStaging(s) == Len(sessions[s].q_res) - Len(sessions'[s].q_res)

\* C27: a step takes samples from the staging queue only if the queue holds
\* at least the number of frames the engine requires next, and it then takes
\* exactly that number; the count the thread compares with is the engine's
\* current requirement whenever the thread is in its loop, that is, it is
\* read again after every step that succeeded.
C27_WholeBlocks ==
    /\ [][\A s \in Sessions : (Resampling(s) /\ PoppedStaging(s) > 0) =>
            /\ Len(sessions[s].q_res) >= sessions[s].engine_next
            /\ PoppedStaging(s) = sessions[s].engine_next]_vars
    /\ [](\A s \in Sessions :
            (Resampling(s) /\ sessions[s].res \in {"loop", "while"}) =>
                sessions[s].next_input_frames = sessions[s].engine_next)

\* after a step the engine asks for a larger block than the staging queue
\* holds: the samples wait in the queue
C27_Witness ==
    \E s \in Sessions :
        /\ Resampling(s)
        /\ sessions[s].res = "loop"
        /\ sessions[s].last_frames > 0
        /\ sessions[s].q_res # <<>>
        /\ Len(sessions[s].q_res) < sessions[s].next_input_frames

(***************************************************************************)
(* C28  Frame-accurate bookkeeping in the Resampler Stage.                 *)
(***************************************************************************)
\* the final queue of the resampled side after the step
ResampledQueueAfter(s) ==
    IF sessions[s].path = "input_resampler" THEN sessions'[s].q_in
                                            ELSE sessions'[s].q_out

\* C28: a step that feeds the engine a block adds to the downstream queue
\* exactly the frames the engine produced in that step (as far as the queue
\* has room for them), taken from the front of the staging buffer, and
\* nothing else.
C28_PushesFramesProduced ==
    [][\A s \in Sessions : (Resampling(s) /\ PoppedStaging(s) > 0) =>
          LET before == ResampledQueue(sessions[s])
              n == Min(sessions'[s].last_frames,
                       sessions[s].capacity - Len(before))
          IN  ResampledQueueAfter(s) =
                before \o SubSeq(sessions'[s].resampler_output_buffer, 1, n)]_vars

\* ------------------------------------------------------------------
\* A recording whose resampled side is fed faster than the
\* synchronizer drains it: the callbacks come once more than in the
\* other specifications, so that the resampler thread has enough
\* blocks to fill the final queue.
\* ------------------------------------------------------------------

OverflowHosts ==
    {h \in LiveHosts :
        Unwrap(h.input).sample_rate > Unwrap(h.output).sample_rate}

InitOverflow ==
    /\ host \in OverflowHosts
    /\ Fresh

CaptureLong ==
    \E s \in Sessions :
        \/ \E data \in FullBuffers(sessions[s].in_type,
                                    Unwrap(host.input).channels) :
              InputCallbackWithin(s, data, MaxCallbacks + 1)
        \/ \E data \in FullBuffers(sessions[s].out_type,
                                    Unwrap(host.output).channels) :
              OutputCallback(s, data)

NextOverflow ==
    StartOnce \/ Stop \/ Orchestrate \/ Resample \/ CaptureLong

SpecOverflow == InitOverflow /\ [][NextOverflow]_vars

\* C29: every sample that is lost because its queue is full has its
\* logged drop event, whichever producer pushed it: the callbacks
\* and the resampler thread pushing its output into the final queue.
C29_EveryDropLogged ==
    \A s \in Sessions : sessions[s].dropped = sessions[s].drop_logs

\* C30: in the passthrough path each input callback carrying k mono
\* samples sends exactly one chunk of 2k elements: the i-th pair is the
\* i-th input sample followed by the i-th sample the shared queue held,
\* or by the equilibrium value once the queue is empty; the queue loses
\* exactly the samples popped, one per input sample while it has any,
\* and every input sample is in the chunk.
C30_PassthroughChunk ==
    [][\A s \in PassthroughSessions :
          (s \in DOMAIN sessions' /\ InputCalled(s)) =>
              LET sess == sessions[s]
                  after == sessions'[s]
                  mono == Normalize(sess.in_type,
                                    Unwrap(host.input).channels,
                                    after.heard_in[Len(after.heard_in)])
                  k == Len(mono)
                  ring == sess.q_out
                  chunk == after.chan[Len(after.chan)]
              IN  /\ Len(after.chan) = Len(sess.chan) + 1
                  /\ SubSeq(after.chan, 1, Len(sess.chan)) = sess.chan
                  /\ Len(chunk) = 2 * k
                  /\ \A i \in 1..k :
                        /\ chunk[2 * i - 1] = mono[i]
                        /\ chunk[2 * i] = IF i <= Len(ring) THEN ring[i]
                                                            ELSE EQUILIBRIUM
                  /\ after.q_out =
                        SubSeq(ring, Min(k, Len(ring)) + 1, Len(ring))]_vars

\* an input callback of two samples found one sample in the shared queue:
\* its chunk has a popped partner and a padded one, and the queue is empty
C30_Witness ==
    \E s \in PassthroughSessions :
        /\ sessions[s].fed_in = 1 /\ sessions[s].fed_out = 0
        /\ Len(Normalize(sessions[s].in_type, Unwrap(host.input).channels,
                          sessions[s].heard_in[1])) = 2
        /\ Cushion = 1
        /\ sessions[s].q_out = <<>>
        /\ Len(sessions[s].chan) = 1 /\ Len(sessions[s].chan[1]) = 4

\* C31: in the passthrough path the shared queue has twice the cushion as
\* its capacity; until a capture stream plays it holds exactly the cushion,
\* all equilibrium samples, none of which found the queue full, and nothing
\* has been sent; and the first cushion-many output-side slots the consumer
\* receives are equilibrium.
C31_Prefill ==
    \A s \in PassthroughSessions :
        LET sess == sessions[s]
            received == Flatten(sess.chan)
        IN  /\ sess.capacity = 2 * Cushion
            /\ (sess.in_stream \in {"none", "built"} /\
                sess.out_stream \in {"none", "built"}) =>
                   /\ sess.q_out = Repeat(EQUILIBRIUM, Cushion)
                   /\ sess.dropped = 0
                   /\ sess.chan = <<>>
            /\ \A i \in 1..Cushion :
                   2 * i <= Len(received) => received[2 * i] = EQUILIBRIUM

\* a session with a cushion of two whose first chunk carried both cushion
\* samples while a captured output sample waits in the queue behind them
C31_Witness ==
    \E s \in PassthroughSessions :
        /\ Cushion = 2
        /\ sessions[s].fed_out = 1
        /\ Len(sessions[s].chan) = 1 /\ Len(sessions[s].chan[1]) = 4
        /\ sessions[s].q_out # <<>>
        /\ sessions[s].q_out[1] # EQUILIBRIUM

\* ------------------------------------------------------------------
\* The mono downmix on its own: calls of Recorder::channels_to_mono on
\* buffers of every length up to MaxFrames frames, whole frames or not,
\* of the 8- and 16-bit integer types with samples at and near the ends
\* of their ranges, in a build that checks overflow and in one that
\* does not.
\* ------------------------------------------------------------------

MonoFormats == {"I8", "U8", "I16"}

EdgeSamples(fmt) ==
    {Lo(fmt), Hi(fmt), 1, 100} \cup (IF Lo(fmt) < 0 THEN {-3} ELSE {})

MaxChannels == CHOOSE c \in ChannelCounts : \A d \in ChannelCounts : d <= c

MonoBuffers(fmt) ==
    UNION {SeqsOfLen(EdgeSamples(fmt), n) :
              n \in 0..(MaxFrames * MaxChannels)}

InitMono ==
    /\ host = [input |-> None, output |-> None]
    /\ Fresh

Downmix ==
    \E fmt \in MonoFormats, chans \in ChannelCounts,
       overflow_checks \in BOOLEAN :
        \E stereo_data \in MonoBuffers(fmt) :
            /\ api.n = 0   \* the function keeps no state: one call each
            /\ api' = [op |-> "channels_to_mono", n |-> 1,
                       args |-> [fmt |-> fmt, stereo_data |-> stereo_data,
                                 channels |-> chans,
                                 overflow_checks |-> overflow_checks],
                       result |-> channels_to_mono(fmt, stereo_data, chans,
                                                   overflow_checks)]
            /\ UNCHANGED <<host, recording_signal, lock, target_rate,
                           channels, sample_size, sessions>>

NextMono == Downmix

SpecMono == InitMono /\ [][NextMono]_vars

Downmixed == api.op = "channels_to_mono"

Frame(k) ==
    SubSeq(api.args.stereo_data, (k - 1) * api.args.channels + 1,
           k * api.args.channels)

\* C32: a call of the mono downmix on a buffer of channels * k samples
\* returns exactly k samples, the i-th one the downmix of the i-th frame
\* alone; a call on a buffer whose length is no multiple of the channel
\* count panics and returns nothing.
C32_OneSamplePerFrame ==
    Downmixed =>
        LET a == api.args
            k == Len(a.stereo_data) \div a.channels
        IN  IF Len(a.stereo_data) % a.channels = 0
              THEN /\ api.result # None
                   /\ Len(Unwrap(api.result)) = k
                   /\ \A i \in 1..k :
                         channels_to_mono(a.fmt, Frame(i), a.channels,
                                          a.overflow_checks)
                             = Some(<<Unwrap(api.result)[i]>>)
              ELSE api.result = None

\* C33: a call of the mono downmix on whole frames of a w-bit integer type
\* returns, for every frame, the sum of the frame's channel values divided
\* by the channel count, also when that sum is outside the range of the
\* type.
C33_ArithmeticMean ==
    (Downmixed /\ Len(api.args.stereo_data) % api.args.channels = 0) =>
        /\ api.result # None
        /\ \A i \in 1..Len(Unwrap(api.result)) :
              Unwrap(api.result)[i] =
                  TruncDiv(SumSeq(Frame(i)), api.args.channels)

(***************************************************************************)
(* The two ends of every queue.                                            *)
(***************************************************************************)
QueueNames == {"q_res", "q_in", "q_out"}

Actors == {"input callback", "output callback", "resampler thread",
           "synchronizer"}

\* the closure or thread the producer half of a queue is moved into
Producer(path, q) ==
    CASE path = "input_resampler" /\ q = "q_res" -> "input callback"
      [] path = "input_resampler" /\ q = "q_in" -> "resampler thread"
      [] path = "input_resampler" /\ q = "q_out" -> "output callback"
      [] path = "output_resampler" /\ q = "q_res" -> "output callback"
      [] path = "output_resampler" /\ q = "q_out" -> "resampler thread"
      [] path = "output_resampler" /\ q = "q_in" -> "input callback"
      [] path = "passthrough" /\ q = "q_out" -> "output callback"
      [] OTHER -> "nobody"

\* the closure or thread the consumer half of a queue is moved into
Consumer(path, q) ==
    CASE path \in ResamplerPaths /\ q = "q_res" -> "resampler thread"
      [] path \in ResamplerPaths /\ q \in {"q_in", "q_out"} -> "synchronizer"
      [] path = "passthrough" /\ q = "q_out" -> "input callback"
      [] OTHER -> "nobody"

\* the step is one of the named actor of session s
Acts(s, actor) ==
    CASE actor = "input callback" ->
            \E data \in CallbackBuffers(sessions[s].in_type,
                                        Unwrap(host.input).channels) :
                InputCallback(s, data)
      [] actor = "output callback" ->
            \E data \in CallbackBuffers(sessions[s].out_type,
                                        Unwrap(host.output).channels) :
                OutputCallback(s, data)
      [] actor = "resampler thread" -> ResamplerThread(s)
      [] actor = "synchronizer" -> Synchronize(s)
      [] OTHER -> FALSE

Fails(s) ==
    \/ sessions'[s].orch \in {"aborted", "panicked"} /\
       sessions[s].orch \notin {"aborted", "panicked"}
    \/ sessions'[s].res = "failed" /\ sessions[s].res # "failed"

\* C35: the recording signal and the derived configuration change only in
\* a step that is a call of start or stop; a step of a thread or callback
\* leaves them as they are, and a step in which a thread gives up while
\* the signal is true leaves get_is_recording answering true.
C35_OnlyStartAndStop ==
    /\ [][(\/ recording_signal' # recording_signal
           \/ target_rate' # target_rate
           \/ channels' # channels
           \/ sample_size' # sample_size) =>
              /\ api'.n = api.n + 1
              /\ api'.op \in {"start", "stop"}]_vars
    /\ [][\A s \in Sessions :
              (s \in DOMAIN sessions' /\ Fails(s) /\ recording_signal) =>
                  /\ api' = api
                  /\ recording_signal' /\ get_is_recording'
                  /\ get_config' = get_config]_vars

\* a thread has given up, no stop has been called since the session's
\* start, and get_is_recording still answers true
C35_Witness ==
    \E s \in Sessions :
        /\ s = Len(sessions)
        /\ sessions[s].orch = "aborted" \/ sessions[s].res = "failed"
        /\ api.op = "start" /\ api.result = Ok
        /\ recording_signal /\ get_is_recording

\* the synchronizer of session s has read the flag as false
ObservedStop(s) == Resampling(s) /\ sessions[s].observed = Some(FALSE)

\* C36: the step in which the synchronizer of a resampling session reads
\* the flag as false sends nothing and pops nothing, whatever the final
\* queues hold, and from then on no step sends a chunk of that session or
\* hands one to a failing send: what the queues hold is never delivered.
C36_NothingSentAfterStop ==
    [][\A s \in Sessions :
          (s \in DOMAIN sessions' /\ Resampling(s)) =>
              /\ (~ObservedStop(s) /\ sessions'[s].observed = Some(FALSE)) =>
                     /\ sessions'[s].chan = sessions[s].chan
                     /\ sessions'[s].unsent = sessions[s].unsent
                     /\ sessions'[s].q_in = sessions[s].q_in
                     /\ sessions'[s].q_out = sessions[s].q_out
              /\ ObservedStop(s) =>
                     /\ sessions'[s].observed = Some(FALSE)
                     /\ sessions'[s].chan = sessions[s].chan
                     /\ sessions'[s].unsent = sessions[s].unsent]_vars

\* the thread of a session has returned after reading the flag as false
\* while a final queue held a whole chunk, which is still in the queue
C36_Witness ==
    \E s \in Sessions :
        /\ ObservedStop(s)
        /\ sessions[s].orch = "done"
        /\ SendCondition(sessions[s])
        /\ sessions[s].q_res # <<>>

\* C37: while the last call made on the recorder is a stop that returned
\* Ok, get_is_recording answers false, whatever the spawned threads are
\* doing.
C37_NotRecordingAfterStop ==
    (api.op = "stop" /\ api.result = Ok) => ~get_is_recording

\* C38: whenever the recording signal is false the target rate is unset
\* and get_config returns an error; get_config returns a configuration
\* only in states in which the signal is true.
C38_NoConfigWhenIdle ==
    ~recording_signal =>
        /\ target_rate = None
        /\ get_config.result # Ok
        /\ get_config.config = None

\* a stop after a start that had derived its configuration: the channel
\* count and the sample size of that session are still set, the rate is not
C38_Witness ==
    /\ api.op = "stop"
    /\ ~recording_signal
    /\ channels # None /\ sample_size # None
    /\ target_rate = None

\* C39: in a resampling session, while the signal is true, the resampler
\* thread is not running once the orchestration thread has returned early
\* and the capture streams are released.
C39_ResamplerNotOrphaned ==
    \A s \in Sessions :
        (Resampling(s) /\ recording_signal) =>
            ~(/\ sessions[s].orch = "aborted"
              /\ StreamsReleased(s)
              /\ ~ResamplerExited(s))

====
